---- MODULE Spec2Model ----
(***************************************************************************)
(* django-s3-storage: S3Storage over an object-store backend.              *)
(*                                                                         *)
(* Strings are sequences of atoms.  An atom is a single character ("a",    *)
(* "/", ".", "+") or a run of characters the model never splits (a file    *)
(* extension ".txt", a MIME word "plain").  Byte strings are sequences of  *)
(* integers.  An absent header is the empty string <<>>.                   *)
(***************************************************************************)
EXTENDS Integers, Sequences, FiniteSets, TLC

\* ------------------------------------------------------------------ bounds

\* longest binary content handed to save
MaxLen == 4
\* longest text-mode content handed to save, in characters
MaxText == 2
\* most clients the threads of a run construct
MaxClients == 4

\* ------------------------------------------------------- sequence helpers

RECURSIVE Flatten(_)
Flatten(ss) ==
    IF ss = <<>> THEN <<>> ELSE Head(ss) \o Flatten(Tail(ss))

StartsWith(s, p) ==
    /\ Len(p) <= Len(s)
    /\ SubSeq(s, 1, Len(p)) = p

Last(s) == s[Len(s)]

\* str.split(sep): the pieces of s between occurrences of the atom sep
RECURSIVE SplitAcc(_, _, _)
SplitAcc(s, sep, cur) ==
    IF s = <<>> THEN <<cur>>
    ELSE IF Head(s) = sep THEN <<cur>> \o SplitAcc(Tail(s), sep, <<>>)
    ELSE SplitAcc(Tail(s), sep, Append(cur, Head(s)))

Split(s, sep) == SplitAcc(s, sep, <<>>)

\* sep.join(parts)
RECURSIVE Join(_, _)
Join(parts, sep) ==
    IF parts = <<>> THEN <<>>
    ELSE IF Len(parts) = 1 THEN parts[1]
    ELSE parts[1] \o <<sep>> \o Join(Tail(parts), sep)

\* ------------------------------------------------------------- posixpath

CurDir == <<".">>
ParDir == <<".", ".">>

\* posixpath.join(a, b)
PosixJoin(a, b) ==
    IF StartsWith(b, <<"/">>) THEN b
    ELSE IF a = <<>> \/ Last(a) = "/" THEN a \o b
    ELSE a \o <<"/">> \o b

\* the component loop of posixpath.normpath
RECURSIVE NormComps(_, _, _)
NormComps(comps, new, absolute) ==
    IF comps = <<>> THEN new
    ELSE LET c == Head(comps) IN
        IF c = <<>> \/ c = CurDir THEN NormComps(Tail(comps), new, absolute)
        ELSE IF \/ c # ParDir
                \/ (~absolute /\ new = <<>>)
                \/ (new # <<>> /\ Last(new) = ParDir)
            THEN NormComps(Tail(comps), Append(new, c), absolute)
        ELSE IF new # <<>>
            THEN NormComps(Tail(comps), SubSeq(new, 1, Len(new) - 1), absolute)
        ELSE NormComps(Tail(comps), new, absolute)

\* posixpath.normpath(path)
NormPath(path) ==
    IF path = <<>> THEN CurDir
    ELSE LET absolute == StartsWith(path, <<"/">>)
             \* POSIX keeps exactly two leading slashes, and folds three or more
             slashes == IF StartsWith(path, <<"/", "/">>) /\ ~StartsWith(path, <<"/", "/", "/">>)
                        THEN <<"/", "/">>
                        ELSE IF absolute THEN <<"/">> ELSE <<>>
             body == Join(NormComps(Split(path, "/"), <<>>, absolute), "/")
             out == slashes \o body
         IN IF out = <<>> THEN CurDir ELSE out

\* the components of a normalised relative path, below the working directory
PathList(path) ==
    LET n == NormPath(path) IN
        IF n = CurDir THEN <<>> ELSE SelectSeq(Split(n, "/"), LAMBDA c : c # <<>>)

RECURSIVE CommonLen(_, _)
CommonLen(a, b) ==
    IF a = <<>> \/ b = <<>> \/ Head(a) # Head(b) THEN 0
    ELSE 1 + CommonLen(Tail(a), Tail(b))

\* posixpath.relpath(path, start), both relative to the same working directory
RelPath(path, start) ==
    LET sl == PathList(start)
        pl == PathList(path)
        i == CommonLen(sl, pl)
        rel == [j \in 1..(Len(sl) - i) |-> ParDir] \o SubSeq(pl, i + 1, Len(pl))
    IN IF rel = <<>> THEN CurDir ELSE Join(rel, "/")

\* ------------------------------------------------------------ mimetypes

OctetStream == <<"application", "/", "octet-stream">>

\* the entries of the mimetypes table the model's names use
TypesMap ==
    [ext \in {".txt", ".svg", ".json", ".js", ".html", ".xml", ".png", ".dtd"} |->
        CASE ext = ".txt" -> <<"text", "/", "plain">>
          [] ext = ".svg" -> <<"image", "/", "svg", "+", "xml">>
          [] ext = ".json" -> <<"application", "/", "json">>
          [] ext = ".js" -> <<"application", "/", "javascript">>
          [] ext = ".html" -> <<"text", "/", "html">>
          [] ext = ".xml" -> <<"application", "/", "xml">>
          [] ext = ".png" -> <<"image", "/", "png">>
          [] ext = ".dtd" -> <<"application", "/", "xml-dtd">>]

\* the suffixes mimetypes reads as an encoding, not as the type
EncodingSuffixes == {".gz"}

\* posixpath.splitext: the extension atom of the last path component, or ""
ExtOf(name) ==
    IF Len(name) >= 2 /\ name[Len(name) - 1] # "/" /\ Last(name) \in (DOMAIN TypesMap \cup EncodingSuffixes)
    THEN Last(name) ELSE ""

\* mimetypes.guess_type(name, strict=False)[0]; <<>> is None
GuessType(name) ==
    LET base == IF ExtOf(name) \in EncodingSuffixes THEN SubSeq(name, 1, Len(name) - 1) ELSE name
        ext == ExtOf(base)
    IN IF ext \in DOMAIN TypesMap THEN TypesMap[ext] ELSE <<>>

ContentTypeOf(name) ==
    LET content_type == GuessType(name) IN
        IF content_type # <<>> THEN content_type ELSE OctetStream

CompressibleSubtypes == {<<"xml">>, <<"json">>, <<"html">>, <<"javascript">>}

\* the table's types are lower case already, so .lower() changes none of them
IsCompressible(content_type) ==
    LET parts == Split(content_type, "/")
        content_type_family == parts[1]
        content_type_subtype == Last(Split(parts[2], "+"))
    IN content_type_family = <<"text">> \/ content_type_subtype \in CompressibleSubtypes

\* ------------------------------------------------------ bytes and text

\* the byte values of binary content
Bytes == {0, 1}

\* the characters of text content
Chars == {"a", "e'"}

\* force_bytes: the UTF-8 encoding of one character
Utf8Char(c) == IF c = "a" THEN <<97>> ELSE <<195, 169>>

\* force_bytes(chunk) over the whole text
Utf8(text) == Flatten([i \in 1..Len(text) |-> Utf8Char(text[i])])

\* the compressed payload: each maximal run of a byte as <<byte, run length>>
RECURSIVE Deflate(_)
Deflate(data) ==
    IF data = <<>> THEN <<>>
    ELSE LET b == Head(data)
             n == CHOOSE k \in 1..Len(data) :
                      /\ \A j \in 1..k : data[j] = b
                      /\ (k = Len(data) \/ data[k + 1] # b)
         IN <<b, n>> \o Deflate(SubSeq(data, n + 1, Len(data)))

RECURSIVE Inflate(_)
Inflate(z) ==
    IF Len(z) < 2 THEN <<>>
    ELSE [j \in 1..z[2] |-> z[1]] \o Inflate(SubSeq(z, 3, Len(z)))

\* gzip.GzipFile(name, "wb", 9, f).write(data): a header (one byte here, the
\* magic number 31) and the payload
GzipCompress(data) == <<31>> \o Deflate(data)

\* gzip.GzipFile(name, "rb", fileobj=f).read()
GzipDecompress(z) == Inflate(Tail(z))

\* "{:d}".format(n): the decimal digits of n
DigitChars == <<"0", "1", "2", "3", "4", "5", "6", "7", "8", "9">>

RECURSIVE FormatInt(_)
FormatInt(n) ==
    IF n < 10 THEN <<DigitChars[n + 1]>>
    ELSE Append(FormatInt(n \div 10), DigitChars[(n % 10) + 1])

DigitValue(d) == (CHOOSE i \in 1..10 : DigitChars[i] = d) - 1

\* int(s)
RECURSIVE ParseInt(_)
ParseInt(s) ==
    IF Len(s) = 1 THEN DigitValue(s[1])
    ELSE 10 * ParseInt(SubSeq(s, 1, Len(s) - 1)) + DigitValue(Last(s))

\* -------------------------------------------------------------- settings

\* a setting that may be a fixed string or a function of the name: the function
\* lambda name: fmt.format(name) is [callable |-> TRUE, value |-> fmt], with the
\* atom "{}" standing for the place of the name
Fixed(str) == [callable |-> FALSE, value |-> str]
Lambda(fmt) == [callable |-> TRUE, value |-> fmt]

_callable_setting(value, name) ==
    IF value.callable
    THEN Flatten([i \in 1..Len(value.value) |->
                    IF value.value[i] = "{}" THEN name ELSE <<value.value[i]>>])
    ELSE value.value

NoMetadata == [k \in {} |-> Fixed(<<>>)]

\* S3Storage.default_s3_settings, the keys the operations below read
default_s3_settings ==
    [AWS_S3_BUCKET_NAME |-> <<>>,
     AWS_S3_KEY_PREFIX |-> <<>>,
     AWS_S3_BUCKET_AUTH |-> TRUE,
     AWS_S3_MAX_AGE_SECONDS |-> 3600,
     AWS_S3_PUBLIC_URL |-> <<>>,
     AWS_S3_REDUCED_REDUNDANCY |-> FALSE,
     AWS_S3_CONTENT_DISPOSITION |-> Fixed(<<>>),
     AWS_S3_CONTENT_LANGUAGE |-> Fixed(<<>>),
     AWS_S3_METADATA |-> NoMetadata,
     AWS_S3_ENCRYPT_KEY |-> "False",
     AWS_S3_KMS_ENCRYPTION_KEY_ID |-> <<>>,
     AWS_S3_GZIP |-> TRUE,
     AWS_S3_FILE_OVERWRITE |-> FALSE]

\* S3Storage.default_auth_settings, the region standing for the four keys
default_auth_settings == [AWS_REGION |-> <<"us-east-1">>]

\* the storage classes: S3Storage and StaticS3Storage
Classes == {"S3Storage", "StaticS3Storage"}

s3_settings_suffix(cls) ==
    IF cls \in {"StaticS3Storage", "ManifestStaticS3Storage"} THEN "_STATIC" ELSE ""

\* default_s3_settings of the class; ManifestStaticS3Storage, lines 535-540,
\* adds the max-age of the hashed files, one year
class_s3_settings(cls) ==
    IF cls = "StaticS3Storage"
    THEN [default_s3_settings EXCEPT !.AWS_S3_BUCKET_AUTH = FALSE]
    ELSE IF cls = "ManifestStaticS3Storage"
    THEN [AWS_S3_MAX_AGE_SECONDS_CACHED |-> 31536000]
         @@ [default_s3_settings EXCEPT !.AWS_S3_BUCKET_AUTH = FALSE]
    ELSE default_s3_settings

\* A keyword argument is its name in upper case and whether it was spelled in
\* lower case: str.upper gives key, and str.lower of a setting key is the
\* name [key |-> setting_key, lower |-> TRUE].
Kwarg(key, lower) == [key |-> key, lower |-> lower]

\* mutant: the Django setting wins over the keyword argument
_setup_settings_first(cls, kwargs, django_settings) ==
    [setting_key \in DOMAIN default_auth_settings \cup DOMAIN class_s3_settings(cls) |->
        IF setting_key \in DOMAIN default_auth_settings
        THEN IF setting_key \in DOMAIN django_settings THEN django_settings[setting_key]
             ELSE IF Kwarg(setting_key, TRUE) \in DOMAIN kwargs
             THEN kwargs[Kwarg(setting_key, TRUE)]
             ELSE default_auth_settings[setting_key]
        ELSE IF (setting_key \o s3_settings_suffix(cls)) \in DOMAIN django_settings
             THEN django_settings[setting_key \o s3_settings_suffix(cls)]
             ELSE IF Kwarg(setting_key, TRUE) \in DOMAIN kwargs
             THEN kwargs[Kwarg(setting_key, TRUE)]
             ELSE class_s3_settings(cls)[setting_key]]

\* S3Storage._setup, lines 167-186, for a storage of the class cls: the
\* keyword argument named setting_key.lower(), else the Django setting, else
\* the default; only the S3 settings are looked up with the suffix of the class
_setup_class(cls, kwargs, django_settings) ==
    [setting_key \in DOMAIN default_auth_settings \cup DOMAIN class_s3_settings(cls) |->
        IF Kwarg(setting_key, TRUE) \in DOMAIN kwargs
        THEN kwargs[Kwarg(setting_key, TRUE)]
        ELSE IF setting_key \in DOMAIN default_auth_settings
        THEN IF setting_key \in DOMAIN django_settings THEN django_settings[setting_key]
             ELSE default_auth_settings[setting_key]
        ELSE IF (setting_key \o s3_settings_suffix(cls)) \in DOMAIN django_settings
             THEN django_settings[setting_key \o s3_settings_suffix(cls)]
             ELSE class_s3_settings(cls)[setting_key]]

\* S3Storage._setup of the class S3Storage
_setup(kwargs, django_settings) == _setup_class("S3Storage", kwargs, django_settings)

\* S3Storage._setup, lines 187-197: the error raised and the warnings logged
_setup_validate(s) ==
    [raised |-> IF s.AWS_S3_BUCKET_NAME = <<>> THEN "ImproperlyConfigured" ELSE "none",
     warnings |-> IF s.AWS_S3_BUCKET_NAME # <<>> /\ s.AWS_S3_PUBLIC_URL # <<>>
                     /\ s.AWS_S3_BUCKET_AUTH
                  THEN <<"Using AWS_S3_BUCKET_AUTH with AWS_S3_PUBLIC_URL">>
                  ELSE <<>>]

\* S3Storage.__init__, lines 211-225: the error raised, the settings of the
\* instance and the warnings logged
S3Storage__init__(cls, kwargs, django_settings) ==
    IF \E kwarg_key \in DOMAIN kwargs :
           kwarg_key.key \notin DOMAIN default_auth_settings \cup DOMAIN class_s3_settings(cls)
    THEN [raised |-> "ImproperlyConfigured", settings |-> <<>>, warnings |-> <<>>]
    ELSE LET s == _setup_class(cls, kwargs, django_settings)
             v == _setup_validate(s)
         IN [raised |-> v.raised,
             settings |-> IF v.raised = "none" THEN s ELSE <<>>,
             warnings |-> v.warnings]

\* ------------------------------------------------------------- key names

\* mutant: the joined path is not normalised
_get_key_name_raw(s, name) ==
    LET stripped == IF StartsWith(name, <<"/">>) THEN Tail(name) ELSE name
    IN PosixJoin(s.AWS_S3_KEY_PREFIX, stripped)

\* S3Storage._get_key_name (on POSIX _to_posix_path changes nothing)
_get_key_name(s, name) ==
    LET stripped == IF StartsWith(name, <<"/">>) THEN Tail(name) ELSE name
    IN NormPath(PosixJoin(s.AWS_S3_KEY_PREFIX, stripped))

\* ----------------------------------------------------------- put params

UNCOMPRESSED_SIZE_META_KEY == "uncompressed_size"

SetMeta(metadata, key, value) ==
    [k \in DOMAIN metadata \cup {key} |-> IF k = key THEN value ELSE metadata[k]]

\* mutant: a space follows the comma of CacheControl
_object_put_params_spaced(s, name) ==
    LET content_disposition == _callable_setting(s.AWS_S3_CONTENT_DISPOSITION, name)
        content_language == _callable_setting(s.AWS_S3_CONTENT_LANGUAGE, name)
        encrypt == s.AWS_S3_ENCRYPT_KEY # "False"
        encrypt_is_str == s.AWS_S3_ENCRYPT_KEY \notin {"False", "True"}
    IN [ACL |-> IF s.AWS_S3_BUCKET_AUTH THEN "private" ELSE "public-read",
        CacheControl |-> <<IF s.AWS_S3_BUCKET_AUTH THEN "private" ELSE "public",
                           ", max-age=">> \o FormatInt(s.AWS_S3_MAX_AGE_SECONDS),
        Metadata |-> [key \in DOMAIN s.AWS_S3_METADATA |->
                        _callable_setting(s.AWS_S3_METADATA[key], name)],
        StorageClass |-> IF s.AWS_S3_REDUCED_REDUNDANCY THEN "REDUCED_REDUNDANCY" ELSE "STANDARD",
        ContentDisposition |-> content_disposition,
        ContentLanguage |-> content_language,
        ServerSideEncryption |->
            IF ~encrypt THEN <<>>
            ELSE IF encrypt_is_str THEN <<s.AWS_S3_ENCRYPT_KEY>> ELSE <<"AES256">>,
        SSEKMSKeyId |->
            IF encrypt /\ encrypt_is_str THEN s.AWS_S3_KMS_ENCRYPTION_KEY_ID ELSE <<>>,
        ContentType |-> <<>>,
        ContentEncoding |-> <<>>]

\* S3Storage._object_put_params, without Bucket and Key
_object_put_params(s, name) ==
    LET content_disposition == _callable_setting(s.AWS_S3_CONTENT_DISPOSITION, name)
        content_language == _callable_setting(s.AWS_S3_CONTENT_LANGUAGE, name)
        encrypt == s.AWS_S3_ENCRYPT_KEY # "False"
        encrypt_is_str == s.AWS_S3_ENCRYPT_KEY \notin {"False", "True"}
    IN [ACL |-> IF s.AWS_S3_BUCKET_AUTH THEN "private" ELSE "public-read",
        CacheControl |-> <<IF s.AWS_S3_BUCKET_AUTH THEN "private" ELSE "public",
                           ",max-age=">> \o FormatInt(s.AWS_S3_MAX_AGE_SECONDS),
        Metadata |-> [key \in DOMAIN s.AWS_S3_METADATA |->
                        _callable_setting(s.AWS_S3_METADATA[key], name)],
        StorageClass |-> IF s.AWS_S3_REDUCED_REDUNDANCY THEN "REDUCED_REDUNDANCY" ELSE "STANDARD",
        ContentDisposition |-> content_disposition,
        ContentLanguage |-> content_language,
        ServerSideEncryption |->
            IF ~encrypt THEN <<>>
            ELSE IF encrypt_is_str THEN <<s.AWS_S3_ENCRYPT_KEY>> ELSE <<"AES256">>,
        SSEKMSKeyId |->
            IF encrypt /\ encrypt_is_str THEN s.AWS_S3_KMS_ENCRYPTION_KEY_ID ELSE <<>>,
        ContentType |-> <<>>,
        ContentEncoding |-> <<>>]

\* the headers _object_put_params decides
PolicyHeaders ==
    {"ACL", "CacheControl", "StorageClass", "ContentDisposition", "ContentLanguage",
     "ServerSideEncryption", "SSEKMSKeyId"}

\* ----------------------------------------------------- the S3 backend

\* The bucket is a function from the keys stored to their objects.  An object
\* is its Body and the headers of the request that wrote it.

EmptyBucket == [k \in {} |-> <<>>]

ClientError(code) == [ok |-> FALSE, code |-> code]

\* put_object / upload_fileobj: the object is replaced whole
put_object(b, key, body, params) ==
    [k \in DOMAIN b \cup {key} |->
        IF k = key
        THEN [Body |-> body] @@ params
        ELSE b[k]]

\* head_object: the headers, or the error 404 (a HEAD response has no error body)
head_object(b, key) ==
    IF key \in DOMAIN b
    THEN [ok |-> TRUE, code |-> "none",
          headers |-> [h \in (DOMAIN b[key]) \ {"Body"} |-> b[key][h]],
          ContentLength |-> Len(b[key].Body)]
    ELSE ClientError("404")

\* get_object: the body and the headers, or the error NoSuchKey
get_object(b, key) ==
    IF key \in DOMAIN b
    THEN [ok |-> TRUE, code |-> "none", Body |-> b[key].Body,
          ContentEncoding |-> b[key].ContentEncoding]
    ELSE ClientError("NoSuchKey")

\* delete_object: deleting an absent key succeeds
delete_object(b, key) == [k \in (DOMAIN b) \ {key} |-> b[k]]

\* mutant: MetadataDirective="COPY", the source's headers are kept
copy_object_keep(b, src, dst, params) ==
    [k \in DOMAIN b \cup {dst} |-> IF k = dst THEN b[src] ELSE b[k]]

\* copy_object with MetadataDirective="REPLACE": the source's body under the
\* request's headers; the caller has checked that src is stored
copy_object_replace(b, src, dst, params) ==
    [k \in DOMAIN b \cup {dst} |->
        IF k = dst
        THEN [Body |-> b[src].Body] @@ params
        ELSE b[k]]

\* copy_object with no MetadataDirective, which is COPY: the source's body and
\* headers, except the ACL, the storage class and the encryption, which are
\* those of the request (here the defaults).  An absent source is the error
\* NoSuchKey; a copy of an object onto itself that changes nothing is refused.
copy_object(b, src, dst) ==
    IF src \notin DOMAIN b THEN [ok |-> FALSE, code |-> "NoSuchKey", bucket |-> b]
    ELSE IF src = dst THEN [ok |-> FALSE, code |-> "InvalidRequest", bucket |-> b]
    ELSE [ok |-> TRUE, code |-> "none",
          bucket |-> [k \in DOMAIN b \cup {dst} |->
                        IF k = dst
                        THEN [b[src] EXCEPT !.ACL = "private", !.StorageClass = "STANDARD",
                                            !.ServerSideEncryption = <<>>,
                                            !.SSEKMSKeyId = <<>>]
                        ELSE b[k]]]

\* the atoms of names and keys, in the order of their UTF-8 bytes
AtomOrder ==
    <<"+", ".", ".dtd", ".gz", ".html", ".js", ".json", ".md5", ".png", ".svg", ".txt", ".xml",
      "/", "_r1", "a", "b", "c", "d">>

Rank(atom) == CHOOSE i \in 1..Len(AtomOrder) : AtomOrder[i] = atom

RECURSIVE KeyLess(_, _)
KeyLess(x, y) ==
    IF x = <<>> THEN y # <<>>
    ELSE IF y = <<>> THEN FALSE
    ELSE IF Head(x) = Head(y) THEN KeyLess(Tail(x), Tail(y))
    ELSE Rank(Head(x)) < Rank(Head(y))

RECURSIVE SortedKeys(_)
SortedKeys(keys) ==
    IF keys = {} THEN <<>>
    ELSE LET first == CHOOSE k \in keys : \A o \in keys \ {k} : KeyLess(k, o)
         IN <<first>> \o SortedKeys(keys \ {first})

\* list_objects_v2(Prefix=prefix): the stored keys that start with prefix, in
\* the order of their bytes
list_objects_v2(b, prefix) ==
    SortedKeys({k \in DOMAIN b : StartsWith(k, prefix)})

\* list_objects_v2(Prefix=prefix, Delimiter="/"): the keys under prefix with
\* no further "/" are Contents; the others are rolled up into CommonPrefixes,
\* each the prefix, the next segment and its "/", listed once
list_objects_v2_delimited(b, prefix) ==
    LET keys == list_objects_v2(b, prefix)
        rest(k) == SubSeq(k, Len(prefix) + 1, Len(k))
        rolled(k) == \E i \in 1..Len(rest(k)) : rest(k)[i] = "/"
        cut(k) == CHOOSE i \in 1..Len(rest(k)) :
                      rest(k)[i] = "/" /\ \A j \in 1..(i - 1) : rest(k)[j] # "/"
        common(k) == prefix \o SubSeq(rest(k), 1, cut(k))
        deep == SelectSeq(keys, rolled)
        first == {i \in 1..Len(deep) : i = 1 \/ common(deep[i]) # common(deep[i - 1])}
    IN [Contents |-> SelectSeq(keys, LAMBDA k : ~rolled(k)),
        CommonPrefixes |->
            [n \in 1..Cardinality(first) |->
                common(deep[CHOOSE i \in first : Cardinality({j \in first : j <= i}) = n])]]

\* ------------------------------------------------------------ S3Storage

\* a file handed to save: text or binary data, and the position it is left at
File(text, data, pos) == [text |-> text, data |-> data, pos |-> pos]

\* f.read() to the end of the file
ReadAll(f) == SubSeq(f.data, f.pos + 1, Len(f.data))

Seek(f, pos) == [f EXCEPT !.pos = pos]

\* _wrap_errors: a ClientError becomes FileNotFoundError for the code
\* NoSuchKey, and OSError for every other code
_wrap_errors(code) == IF code = "NoSuchKey" THEN "FileNotFoundError" ELSE "OSError"

\* S3Storage.meta
meta(b, s, name) ==
    LET r == head_object(b, _get_key_name(s, name)) IN
        IF r.ok THEN [raised |-> "none", obj |-> r]
        ELSE [raised |-> _wrap_errors(r.code), obj |-> r]

\* _save, lines 307-313: text content is written to a temporary file as bytes
ToBytes(content) ==
    IF content.text
    THEN File(FALSE, Utf8(content.data), 0)
    ELSE content

\* mutant: keeps the gzipped file whenever it is not larger
CompressNotLarger(content, put_params) ==
    LET gzipped == GzipCompress(ReadAll(content))
        orig_size == Len(content.data)
    IN IF Len(gzipped) <= orig_size
       THEN [content |-> File(FALSE, gzipped, 0),
             put_params |-> [put_params EXCEPT
                 !.ContentEncoding = <<"gzip">>,
                 !.Metadata = SetMeta(@, UNCOMPRESSED_SIZE_META_KEY, FormatInt(orig_size))]]
       ELSE [content |-> Seek(content, 0), put_params |-> put_params]

\* _save, lines 324-337: gzip the content into a temporary file and keep that
\* file only if it is smaller; copyfileobj leaves content at its end, which is
\* what content.tell() reads
Compress(content, put_params) ==
    LET gzipped == GzipCompress(ReadAll(content))
        read == Seek(content, Len(content.data))
        orig_size == read.pos
    IN IF Len(gzipped) < orig_size
       THEN [content |-> File(FALSE, gzipped, 0),
             put_params |-> [put_params EXCEPT
                 !.ContentEncoding = <<"gzip">>,
                 !.Metadata = SetMeta(@, UNCOMPRESSED_SIZE_META_KEY, FormatInt(orig_size))]]
       ELSE [content |-> Seek(read, 0), put_params |-> put_params]

\* mutant: compresses whatever the content type
ShouldCompressAlways(s, content_type) == s.AWS_S3_GZIP

\* _save, lines 319-323
ShouldCompress(s, content_type) ==
    s.AWS_S3_GZIP /\ IsCompressible(content_type)

\* S3Storage._save up to the upload: the key, the body and the put params
_save(s, name, content0) ==
    LET put_params == _object_put_params(s, name)
        content == ToBytes(Seek(content0, 0))
        content_type == ContentTypeOf(name)
        typed == [put_params EXCEPT !.ContentType = content_type]
        plan == IF ShouldCompress(s, content_type)
                THEN Compress(content, typed)
                ELSE [content |-> content, put_params |-> typed]
    IN [Key |-> _get_key_name(s, name),
        Body |-> ReadAll(plan.content),
        put_params |-> plan.put_params]

\* S3Storage._save, lines 302-351: the temporary files of temp_files that are
\* open when _save is left.  fault is where an exception leaves it: "compress"
\* in the copy into the gzip file (line 328), "upload" in upload_fileobj (line
\* 344), "none" when it returns.  Only the return passes the loop that closes
\* them, lines 350-351; closing(gzip_file) closes the GzipFile, not the file
\* under it.
temp_files_left(s, name, content0, fault) ==
    LET made == (IF content0.text THEN {"bytes"} ELSE {})
                \cup (IF ShouldCompress(s, ContentTypeOf(name)) THEN {"gzip"} ELSE {})
    IN IF fault = "none" THEN {} ELSE made

\* mutant: never un-gzips
_open_raw(b, s, name, mode) ==
    LET obj == get_object(b, _get_key_name(s, name)) IN
        IF mode # "rb" THEN [raised |-> "ValueError", data |-> <<>>, requests |-> <<>>]
        ELSE IF ~obj.ok
        THEN [raised |-> _wrap_errors(obj.code), data |-> <<>>, requests |-> <<"get_object">>]
        ELSE [raised |-> "none", data |-> obj.Body, requests |-> <<"get_object">>]

\* mutant: the object is requested before the mode is looked at
_open_fetch_first(b, s, name, mode) ==
    LET obj == get_object(b, _get_key_name(s, name)) IN
        IF ~obj.ok
        THEN [raised |-> _wrap_errors(obj.code), data |-> <<>>, requests |-> <<"get_object">>]
        ELSE IF mode # "rb"
        THEN [raised |-> "ValueError", data |-> <<>>, requests |-> <<"get_object">>]
        ELSE IF obj.ContentEncoding = <<"gzip">>
        THEN [raised |-> "none", data |-> GzipDecompress(obj.Body), requests |-> <<"get_object">>]
        ELSE [raised |-> "none", data |-> obj.Body, requests |-> <<"get_object">>]

\* S3Storage._open followed by read(): the error raised, or the bytes read,
\* and the requests sent to the backend
_open(b, s, name, mode) ==
    IF mode # "rb" THEN [raised |-> "ValueError", data |-> <<>>, requests |-> <<>>]
    ELSE LET obj == get_object(b, _get_key_name(s, name)) IN
        IF ~obj.ok
        THEN [raised |-> _wrap_errors(obj.code), data |-> <<>>, requests |-> <<"get_object">>]
        ELSE IF obj.ContentEncoding = <<"gzip">>
        THEN [raised |-> "none", data |-> GzipDecompress(obj.Body), requests |-> <<"get_object">>]
        ELSE [raised |-> "none", data |-> obj.Body, requests |-> <<"get_object">>]

\* S3Storage.meta when the backend answers head_object with the failure
\* fault ("none": it serves the request)
meta_under(b, s, name, fault) ==
    IF fault = "none" THEN meta(b, s, name)
    ELSE [raised |-> _wrap_errors(fault), obj |-> ClientError(fault)]

\* mutant: a name with no object at its key does not exist
exists_under_file_only(b, s, name, head_fault, list_fault) ==
    [raised |-> "none",
     value |-> (name = <<>> \/ Last(name) # "/")
               /\ meta_under(b, s, name, head_fault).raised = "none"]

\* S3Storage.exists, lines 391-413, when the backend answers head_object with
\* head_fault and list_objects_v2 with list_fault: the error raised and the
\* value returned
exists_under(b, s, name, head_fault, list_fault) ==
    LET dir_prefix(n) == _get_key_name(s, n) \o <<"/">>
        \* lines 396-405: except ClientError: return False
        has_contents(n) == IF list_fault # "none" THEN FALSE
                           ELSE list_objects_v2(b, dir_prefix(n)) # <<>>
    IN IF name # <<>> /\ Last(name) = "/"
       THEN [raised |-> "none", value |-> has_contents(name)]
       \* lines 407-413: except OSError: return self.exists(name + "/")
       ELSE IF meta_under(b, s, name, head_fault).raised = "none"
       THEN [raised |-> "none", value |-> TRUE]
       ELSE [raised |-> "none", value |-> has_contents(name \o <<"/">>)]

\* S3Storage.exists when the backend serves every request
exists(b, s, name) == exists_under(b, s, name, "none", "none").value

\* mutant: lists without the delimiter, so every name under path is a file
listdir_flat(b, s, path) ==
    LET key == _get_key_name(s, path)
        prefix == IF key = CurDir THEN <<>> ELSE key \o <<"/">>
        keys == list_objects_v2(b, prefix)
    IN [dirs |-> <<>>,
        files |-> [i \in 1..Len(keys) |-> RelPath(keys[i], prefix)]]

\* S3Storage.listdir, lines 415-433
listdir(b, s, path) ==
    LET key == _get_key_name(s, path)
        prefix == IF key = CurDir THEN <<>> ELSE key \o <<"/">>
        page == list_objects_v2_delimited(b, prefix)
    IN [dirs |-> [i \in 1..Len(page.CommonPrefixes) |-> RelPath(page.CommonPrefixes[i], prefix)],
        files |-> [i \in 1..Len(page.Contents) |-> RelPath(page.Contents[i], prefix)]]

\* S3Storage.copy, lines 380-384, when the backend answers copy_object with
\* fault: the error raised and the bucket afterwards
copy(b, s, src_name, dst_name, fault) ==
    LET r == IF fault # "none" THEN [ok |-> FALSE, code |-> fault, bucket |-> b]
             ELSE copy_object(b, _get_key_name(s, src_name), _get_key_name(s, dst_name))
    IN [raised |-> IF r.ok THEN "none" ELSE _wrap_errors(r.code),
        bucket |-> r.bucket,
        requests |-> <<"copy_object">>]

\* mutant: the source is deleted before it is copied
rename_delete_first(b, s, src_name, dst_name, copy_fault, delete_fault) ==
    IF delete_fault # "none"
    THEN [raised |-> _wrap_errors(delete_fault), bucket |-> b, requests |-> <<"delete_object">>]
    ELSE LET c == copy(delete_object(b, _get_key_name(s, src_name)), s, src_name, dst_name,
                       copy_fault)
         IN [raised |-> c.raised, bucket |-> c.bucket,
             requests |-> <<"delete_object", "copy_object">>]

\* S3Storage.rename, lines 386-389: the error copy raises leaves rename (it is
\* no ClientError any more, so _wrap_errors passes it on); delete_fault is the
\* failure the backend answers delete_object with
rename(b, s, src_name, dst_name, copy_fault, delete_fault) ==
    LET c == copy(b, s, src_name, dst_name, copy_fault) IN
        IF c.raised # "none" THEN c
        ELSE IF delete_fault # "none"
        THEN [raised |-> _wrap_errors(delete_fault), bucket |-> c.bucket,
              requests |-> <<"copy_object", "delete_object">>]
        ELSE [raised |-> "none",
              bucket |-> delete_object(c.bucket, _get_key_name(s, src_name)),
              requests |-> <<"copy_object", "delete_object">>]

\* HashedFilesMixin.hashed_name: the hash of the content goes before the
\* extension
hashed_name(name) ==
    SubSeq(name, 1, Len(name) - 1) \o <<".md5", Last(name)>>

\* mutant: the max-age is put back only when the pass returns
post_process_exit_unguarded(s, initial_aws_s3_max_age_seconds, exit) ==
    IF exit = "return"
    THEN [s EXCEPT !.AWS_S3_MAX_AGE_SECONDS = initial_aws_s3_max_age_seconds]
    ELSE s

\* ManifestStaticS3Storage.post_process, lines 548-549: the finally clause,
\* whichever way the generator is left
post_process_exit(s, initial_aws_s3_max_age_seconds, exit) ==
    [s EXCEPT !.AWS_S3_MAX_AGE_SECONDS = initial_aws_s3_max_age_seconds]

\* the file extensions os.path.splitext can split off a name
ExtAtoms == DOMAIN TypesMap \cup EncodingSuffixes

\* the strings get_random_string(7) returns
RandomStrings == {"_r1"}

\* Storage.get_alternative_name: "%s_%s%s" % (file_root, random, file_ext)
get_alternative_name(name, random) ==
    IF Len(name) >= 2 /\ name[Len(name) - 1] # "/" /\ Last(name) \in ExtAtoms
    THEN SubSeq(name, 1, Len(name) - 1) \o <<random, Last(name)>>
    ELSE name \o <<random>>

\* mutant: the name asked for is always available
get_available_name_same(b, s, name) == {name}

\* S3Storage.get_available_name: the names it may return (none when every
\* random string of the model is taken)
get_available_name(b, s, name) ==
    IF s.AWS_S3_FILE_OVERWRITE \/ ~exists(b, s, name) THEN {name}
    ELSE {alt \in {get_alternative_name(name, r) : r \in RandomStrings} : ~exists(b, s, alt)}

\* S3Storage.size: the KeyError of a missing ContentEncoding or a missing
\* uncompressed_size gives the content length; an encoding other than gzip falls
\* off the end of the function, which returns None
size(b, s, name) ==
    LET m == meta(b, s, name).obj IN
        IF m.headers.ContentEncoding = <<>> THEN [none |-> FALSE, value |-> m.ContentLength]
        ELSE IF m.headers.ContentEncoding # <<"gzip">> THEN [none |-> TRUE, value |-> 0]
        ELSE IF UNCOMPRESSED_SIZE_META_KEY \in DOMAIN m.headers.Metadata
            THEN [none |-> FALSE,
                  value |-> ParseInt(m.headers.Metadata[UNCOMPRESSED_SIZE_META_KEY])]
        ELSE [none |-> FALSE, value |-> m.ContentLength]

\* mutant: adds a charset to the content type it copies
SyncParamsCharset(s, name, obj) ==
    [_object_put_params(s, name) EXCEPT
        !.ContentType = obj.ContentType \o <<";charset=utf-8">>,
        !.ContentEncoding = obj.ContentEncoding]

\* mutant: copies the encoding without the size that goes with it
SyncParamsNoSize(s, name, obj) ==
    LET put_params == _object_put_params(s, name)
        encoded == IF obj.ContentEncoding # <<>>
                   THEN [put_params EXCEPT !.ContentEncoding = obj.ContentEncoding]
                   ELSE put_params
    IN [encoded EXCEPT !.ContentType = obj.ContentType]

\* mutant: works the content type out from the name and sends no encoding
SyncParamsGuessed(s, name, obj) ==
    [_object_put_params(s, name) EXCEPT !.ContentType = ContentTypeOf(name)]

\* sync_meta_iter, lines 493-512: the params of the copy, from the headers
\* meta returned
SyncParams(s, name, obj) ==
    LET put_params == _object_put_params(s, name)
        content_encoding == obj.ContentEncoding
        encoded == IF content_encoding # <<>>
                   THEN [put_params EXCEPT !.ContentEncoding = content_encoding]
                   ELSE put_params
        sized == IF content_encoding = <<"gzip">>
                    /\ UNCOMPRESSED_SIZE_META_KEY \in DOMAIN obj.Metadata
                 THEN [encoded EXCEPT !.Metadata =
                          SetMeta(@, UNCOMPRESSED_SIZE_META_KEY,
                                  obj.Metadata[UNCOMPRESSED_SIZE_META_KEY])]
                 ELSE encoded
    IN [sized EXCEPT !.ContentType = obj.ContentType]

\* ---------------------------------------------------------- connections

\* The clients are numbered in the order they are made.  A _Local object is
\* the client each thread has in it (0: the thread has no attributes in it
\* yet), the thread that built it and the threads that read s3_connection
\* from it.  conn.locals are the _Local objects in the order they were built,
\* the last being self._connections; conn.owner is the thread that made
\* each client, conn.held the client a thread has read and not used yet, and
\* conn.users the threads that sent a request with each client.

\* _Local(storage), line 199, on the thread t: __init__ runs on t and makes
\* the client of t
_Local(conn, t) ==
    [conn EXCEPT
        !.locals = Append(@, [clients |-> [u \in DOMAIN conn.held |->
                                             IF u = t THEN Len(conn.owner) + 1 ELSE 0],
                              builder |-> t,
                              accessed |-> {}]),
        !.owner = Append(@, t)]

\* mutant: the connection manager is an ordinary object, whose one client is
\* the one its builder made
s3_connection_shared(conn, t) ==
    LET cur == Len(conn.locals)
        mine == conn.locals[cur].clients[conn.locals[cur].builder]
    IN [conn EXCEPT !.locals[cur].accessed = @ \cup {t}, !.held[t] = mine]

\* S3Storage.s3_connection, lines 203-205, read on the thread t: the first
\* read of an attribute of a threading.local on a thread runs __init__ on
\* that thread, lines 112-127, which makes a client
s3_connection(conn, t) ==
    LET cur == Len(conn.locals)
        mine == conn.locals[cur].clients[t]
    IN IF mine # 0
       THEN [conn EXCEPT !.locals[cur].accessed = @ \cup {t}, !.held[t] = mine]
       ELSE [conn EXCEPT !.locals[cur].clients[t] = Len(conn.owner) + 1,
                         !.locals[cur].accessed = @ \cup {t},
                         !.owner = Append(@, t),
                         !.held[t] = Len(conn.owner) + 1]

\* ------------------------------------------------------------- the state

VARIABLES
    bucket,           \* the backend: key -> object
    django_settings,  \* the AWS_* settings of the Django project
    settings,         \* S3Storage.settings, as _setup last built it
    sync,             \* the sync_meta_iter generator in progress
    ret,              \* what the last call returned
    saved,            \* history: key -> the bytes last saved under it
    storage,          \* the storage instance: its class and its _kwargs
    pass,             \* the post_process generator in progress
    pending,          \* thread -> the save it is in the middle of
    connections       \* the _Local objects and the clients made for them

vars == <<bucket, django_settings, settings, sync, ret, saved, storage, pass, pending,
          connections>>

\* default_storage is built with no keyword arguments
_kwargs == [k \in {} |-> TRUE]

\* settings.py of the test project
ProjectSettings ==
    [AWS_S3_BUCKET_NAME |-> <<"bucket">>, AWS_S3_BUCKET_NAME_STATIC |-> <<"bucket">>]

\* the project overwrites files, as under testOverwrite (tests.py line 339)
OverwriteSettings == [AWS_S3_FILE_OVERWRITE |-> TRUE] @@ ProjectSettings

\* default_storage
DefaultStorage == [cls |-> "S3Storage", _kwargs |-> _kwargs]

\* no storage was constructed
NoStorage == [cls |-> "none", _kwargs |-> _kwargs]

\* the threads of the process
Threads == {"t1", "t2"}

\* no post_process generator was started
NoPass == [pc |-> "idle", initial_aws_s3_max_age_seconds |-> 0]

\* no thread is in the middle of a save
NoPending ==
    [t \in Threads |->
        [pc |-> "idle", name |-> <<>>, final |-> <<>>, content |-> File(FALSE, <<>>, 0)]]

\* the connections are not followed: every call runs on one thread
NoConnections == [locals |-> <<>>]

\* the settings of testSyncMeta, tests.py lines 235 and 246-257
SyncTestSettings ==
    [AWS_S3_GZIP |-> FALSE,
     AWS_S3_BUCKET_AUTH |-> FALSE,
     AWS_S3_MAX_AGE_SECONDS |-> 9999,
     AWS_S3_CONTENT_DISPOSITION |-> Lambda(<<"attachment; filename=", "{}">>),
     AWS_S3_CONTENT_LANGUAGE |-> Fixed(<<"eo">>),
     AWS_S3_METADATA |-> [k \in {"foo", "baz"} |->
                             IF k = "foo" THEN Fixed(<<"bar">>) ELSE Lambda(<<"{}">>)],
     AWS_S3_REDUCED_REDUNDANCY |-> TRUE,
     AWS_S3_ENCRYPT_KEY |-> "True"]

\* the values the project's settings take while the storage is in use
Environments == {OverwriteSettings, OverwriteSettings @@ SyncTestSettings}

\* the values the project's settings take when single saves are checked
SaveEnvironments == {OverwriteSettings, OverwriteSettings @@ [AWS_S3_GZIP |-> FALSE]}

\* the names the callers use
Names == {<<"a", ".txt">>, <<"/", "a", ".txt">>, <<"b", ".png">>, <<"d", "/", "c", ".svg">>}

\* the names single saves are checked with: one for each content type of
\* TypesMap, a name with an encoding suffix, and names without an extension
AllNames ==
    Names \cup {<<"c", ext>> : ext \in DOMAIN TypesMap}
          \cup {<<"a", ".txt", ".gz">>, <<"c">>, <<"d", "/", ".txt">>}

Repeat(b, n) == [i \in 1..n |-> b]

\* the content the callers save while a sync may be in progress: one that
\* gzip shrinks, so that the settings and the name decide how it is stored
Contents == {File(FALSE, Repeat(0, MaxLen), 0)}

Strings(alphabet, n) == UNION {[1..m -> alphabet] : m \in 0..n}

\* the contents single saves are checked with: every binary and every text
\* content up to the bounds, left at any position by the caller
AllContents ==
    {File(FALSE, d, p) : <<d, p>> \in {<<d, p>> \in Strings(Bytes, MaxLen) \X (0..MaxLen) : p <= Len(d)}}
    \cup
    {File(TRUE, d, p) : <<d, p>> \in {<<d, p>> \in Strings(Chars, MaxText) \X (0..MaxText) : p <= Len(d)}}

NoObj == [ok |-> FALSE, code |-> "none"]

SyncIdle ==
    [pc |-> "idle", listing |-> <<>>, i |-> 0, obj |-> NoObj, yielded |-> <<>>,
     copied |-> {}, clean |-> FALSE, swallowed |-> "none", prev |-> {}]

NoRet ==
    [op |-> "none", name |-> <<>>, raised |-> "none", value |-> FALSE, fault |-> "none",
     mode |-> "", data |-> <<>>, requests |-> <<>>, arg |-> <<>>, temp_files |-> {}]

Init ==
    /\ bucket = EmptyBucket
    /\ django_settings = OverwriteSettings
    /\ settings = _setup(_kwargs, django_settings)
    /\ sync = SyncIdle
    /\ ret = NoRet
    /\ saved = EmptyBucket
    /\ storage = DefaultStorage
    /\ pass = NoPass
    /\ pending = NoPending
    /\ connections = NoConnections

\* the generator is not running: it was never started, it is suspended at its
\* yield, or it is over
Suspended == sync.pc \in {"idle", "yielded", "done"}

\* what a call made by the consumer of the generator, or by another thread,
\* does to the history of the iteration: an iteration in progress is no longer
\* undisturbed, and the record of one that is over is dropped
Disturb(sy) ==
    IF sy.pc \in {"fetch", "copy", "yielded", "raised"}
    THEN [sy EXCEPT !.clean = FALSE, !.prev = {}]
    ELSE SyncIdle

\* Storage.save: get_available_name, then _save and the upload
Save(name, content) ==
    \E final \in get_available_name(bucket, settings, name) :
        LET req == _save(settings, final, content) IN
            /\ bucket' = put_object(bucket, req.Key, req.Body, req.put_params)
            /\ saved' = [k \in DOMAIN saved \cup {req.Key} |->
                            IF k = req.Key
                            THEN IF content.text THEN Utf8(content.data) ELSE content.data
                            ELSE saved[k]]
            /\ ret' = [NoRet EXCEPT !.op = "save", !.name = final, !.arg = name,
                                    !.temp_files =
                                        temp_files_left(settings, final, content, "none")]
            /\ sync' = Disturb(sync)
            /\ UNCHANGED <<pass, pending, connections, storage, django_settings, settings>>

\* Storage.save on the thread t, up to the call of _save: get_available_name
\* has asked the backend whether the name is taken
SaveCheck(t, name, content) ==
    /\ pending[t].pc \in {"idle", "done"}
    /\ \E final \in get_available_name(bucket, settings, name) :
           pending' = [pending EXCEPT ![t] = [pc |-> "put", name |-> name, final |-> final,
                                              content |-> content]]
    /\ ret' = NoRet
    /\ sync' = Disturb(sync)
    /\ UNCHANGED <<pass, connections, storage, bucket, django_settings, settings, saved>>

\* the rest of Storage.save on the thread t: _save and its upload; the thread
\* keeps the name save returned
SaveUpload(t) ==
    /\ pending[t].pc = "put"
    /\ LET req == _save(settings, pending[t].final, pending[t].content) IN
        /\ bucket' = put_object(bucket, req.Key, req.Body, req.put_params)
        /\ saved' = [k \in DOMAIN saved \cup {req.Key} |->
                        IF k = req.Key
                        THEN IF pending[t].content.text THEN Utf8(pending[t].content.data)
                             ELSE pending[t].content.data
                        ELSE saved[k]]
    /\ pending' = [pending EXCEPT ![t].pc = "done"]
    /\ ret' = [NoRet EXCEPT !.op = "save", !.name = pending[t].final,
                            !.arg = pending[t].name]
    /\ sync' = Disturb(sync)
    /\ UNCHANGED <<pass, connections, storage, django_settings, settings>>

\* Storage.save of another storage of the project, S3Storage(
\* aws_s3_key_prefix=prefix), which keeps its files in the same bucket
SaveOther(prefix, name, content) ==
    LET req == _save([settings EXCEPT !.AWS_S3_KEY_PREFIX = prefix], name, content) IN
        /\ bucket' = put_object(bucket, req.Key, req.Body, req.put_params)
        /\ saved' = [k \in DOMAIN saved \cup {req.Key} |->
                        IF k = req.Key
                        THEN IF content.text THEN Utf8(content.data) ELSE content.data
                        ELSE saved[k]]
        /\ ret' = [NoRet EXCEPT !.op = "save_other", !.name = name, !.arg = prefix]
        /\ sync' = Disturb(sync)
        /\ UNCHANGED <<pass, pending, connections, storage, django_settings, settings>>

\* Storage.save when an exception leaves _save: the read of the content
\* fails during the compression, or the backend answers the upload with a
\* ClientError, which _wrap_errors turns into an OSError
SaveFails(name, content, fault) ==
    /\ fault = "compress" => ShouldCompress(settings, ContentTypeOf(name))
    /\ \E final \in get_available_name(bucket, settings, name) :
           ret' = [NoRet EXCEPT !.op = "save", !.name = final, !.arg = name,
                                !.raised = "OSError", !.fault = fault,
                                !.temp_files =
                                    temp_files_left(settings, final, content, fault)]
    /\ sync' = Disturb(sync)
    /\ UNCHANGED <<pass, pending, connections, storage, bucket, django_settings, settings,
                   saved>>

\* S3Storage.delete
Delete(name) ==
    LET key == _get_key_name(settings, name) IN
        /\ bucket' = delete_object(bucket, key)
        /\ saved' = [k \in (DOMAIN saved) \ {key} |-> saved[k]]
        /\ ret' = NoRet
        /\ sync' = Disturb(sync)
        /\ UNCHANGED <<pass, pending, connections, storage, django_settings, settings>>

\* S3Storage.exists, the backend answering the metadata request with head_fault
\* and the listing request with list_fault
Exists(name, head_fault, list_fault) ==
    LET r == exists_under(bucket, settings, name, head_fault, list_fault) IN
        /\ ret' = [NoRet EXCEPT !.op = "exists", !.name = name, !.raised = r.raised,
                                !.value = r.value, !.fault = head_fault]
        /\ sync' = Disturb(sync)
        /\ UNCHANGED <<pass, pending, connections, storage, bucket, django_settings, settings, saved>>

\* Storage.open: S3Storage._open and the read of the file it returns
Open(name, mode) ==
    LET r == _open(bucket, settings, name, mode) IN
        /\ ret' = [NoRet EXCEPT !.op = "open", !.name = name, !.mode = mode,
                                !.raised = r.raised, !.data = r.data,
                                !.requests = r.requests]
        /\ sync' = Disturb(sync)
        /\ UNCHANGED <<pass, pending, connections, storage, bucket, django_settings, settings, saved>>

\* S3Storage.listdir
Listdir(path) ==
    /\ ret' = [NoRet EXCEPT !.op = "listdir", !.name = path,
                            !.value = listdir(bucket, settings, path)]
    /\ sync' = Disturb(sync)
    /\ UNCHANGED <<pass, pending, connections, storage, bucket, django_settings, settings, saved>>

\* S3Storage.size
Size(name) ==
    LET r == meta(bucket, settings, name) IN
        /\ ret' = [NoRet EXCEPT !.op = "size", !.name = name, !.raised = r.raised,
                                !.value = IF r.raised = "none"
                                          THEN size(bucket, settings, name)
                                          ELSE [none |-> TRUE, value |-> 0]]
        /\ sync' = Disturb(sync)
        /\ UNCHANGED <<pass, pending, connections, storage, bucket, django_settings, settings, saved>>

\* S3Storage.meta
Meta(name) ==
    LET r == meta(bucket, settings, name) IN
        /\ ret' = [NoRet EXCEPT !.op = "meta", !.name = name, !.raised = r.raised,
                                !.requests = <<"head_object">>]
        /\ sync' = Disturb(sync)
        /\ UNCHANGED <<pass, pending, connections, storage, bucket, django_settings, settings, saved>>

\* the history of the bytes saved, after the bucket b became the bucket nb by
\* copies and deletions: a key has the history of the key its object came from
Moved(b, nb, src, dst) ==
    LET copied == nb # b /\ src \in DOMAIN saved IN
        [k \in (DOMAIN saved \cap DOMAIN nb) \cup (IF copied THEN {dst} ELSE {}) |->
            IF copied /\ k = dst THEN saved[src] ELSE saved[k]]

\* S3Storage.copy
Copy(src_name, dst_name, fault) ==
    LET r == copy(bucket, settings, src_name, dst_name, fault) IN
        /\ bucket' = r.bucket
        /\ saved' = Moved(bucket, r.bucket, _get_key_name(settings, src_name),
                          _get_key_name(settings, dst_name))
        /\ ret' = [NoRet EXCEPT !.op = "copy", !.name = src_name, !.arg = dst_name,
                                !.raised = r.raised, !.fault = fault,
                                !.requests = r.requests]
        /\ sync' = Disturb(sync)
        /\ UNCHANGED <<pass, pending, connections, storage, django_settings, settings>>

\* S3Storage.rename
Rename(src_name, dst_name, copy_fault, delete_fault) ==
    LET r == rename(bucket, settings, src_name, dst_name, copy_fault, delete_fault) IN
        /\ bucket' = r.bucket
        /\ saved' = Moved(bucket, r.bucket, _get_key_name(settings, src_name),
                          _get_key_name(settings, dst_name))
        /\ ret' = [NoRet EXCEPT !.op = "rename", !.name = src_name, !.arg = dst_name,
                                !.raised = r.raised,
                                !.fault = IF copy_fault # "none" THEN copy_fault
                                          ELSE delete_fault,
                                !.requests = r.requests]
        /\ sync' = Disturb(sync)
        /\ UNCHANGED <<pass, pending, connections, storage, django_settings, settings>>

\* ManifestStaticS3Storage.post_process, lines 543-544, at the first next()
PassBegin ==
    /\ pass.pc = "idle"
    /\ pass' = [pc |-> "running",
                initial_aws_s3_max_age_seconds |-> settings.AWS_S3_MAX_AGE_SECONDS]
    /\ settings' = [settings EXCEPT
                       !.AWS_S3_MAX_AGE_SECONDS = settings.AWS_S3_MAX_AGE_SECONDS_CACHED]
    /\ ret' = [NoRet EXCEPT !.op = "post_process"]
    /\ UNCHANGED <<pending, connections, storage, bucket, django_settings, sync, saved>>

\* lines 546-547: the pass of HashedFilesMixin stores one file under its
\* hashed name (it deletes the key, then calls _save) and yields
PassSave(name, content) ==
    /\ pass.pc = "running"
    /\ LET req == _save(settings, hashed_name(name), content) IN
        /\ bucket' = put_object(delete_object(bucket, req.Key), req.Key, req.Body,
                                req.put_params)
        /\ saved' = [k \in DOMAIN saved \cup {req.Key} |->
                        IF k = req.Key
                        THEN IF content.text THEN Utf8(content.data) ELSE content.data
                        ELSE saved[k]]
    /\ ret' = [NoRet EXCEPT !.op = "post_process_save", !.name = hashed_name(name),
                            !.arg = name]
    /\ UNCHANGED <<pass, pending, connections, storage, django_settings, settings, sync>>

\* lines 548-549: the pass is over, by return, by an exception of the pass
\* ("raise") or by the consumer closing the generator ("close")
PassEnd(exit) ==
    /\ pass.pc = "running"
    /\ settings' = post_process_exit(settings, pass.initial_aws_s3_max_age_seconds, exit)
    /\ pass' = NoPass
    /\ ret' = [NoRet EXCEPT !.op = "post_process_end",
                            !.raised = IF exit = "raise" THEN "Exception" ELSE "none",
                            !.mode = exit]
    /\ UNCHANGED <<pending, connections, storage, bucket, django_settings, sync, saved>>

\* S3Storage._setting_changed_received on the thread t: _setup, whose line
\* 199 builds a new connection manager
ThreadSettingChanged(t, env) ==
    /\ env # django_settings
    /\ Len(connections.owner) < MaxClients
    /\ django_settings' = env
    /\ settings' = _setup_class(storage.cls, storage._kwargs, env)
    /\ connections' = _Local(connections, t)
    /\ ret' = [NoRet EXCEPT !.raised = _setup_validate(settings').raised]
    /\ sync' = Disturb(sync)
    /\ UNCHANGED <<pass, pending, storage, bucket, saved>>

\* a call of the thread t reads self.s3_connection
ThreadAcquire(t) ==
    /\ connections.held[t] = 0
    /\ \/ connections.locals[Len(connections.locals)].clients[t] # 0
       \/ Len(connections.owner) < MaxClients
    /\ connections' = s3_connection(connections, t)
    /\ ret' = NoRet
    /\ UNCHANGED <<pass, pending, storage, bucket, django_settings, settings, sync, saved>>

\* the call goes on and sends its request, here the head_object of meta(name),
\* with the client it has read
ThreadRequest(t, name) ==
    /\ connections.held[t] # 0
    /\ connections' = [connections EXCEPT !.users[connections.held[t]] = @ \cup {t},
                                          !.held[t] = 0]
    /\ ret' = [NoRet EXCEPT !.op = "meta", !.name = name,
                            !.raised = meta(bucket, settings, name).raised,
                            !.requests = <<"head_object">>]
    /\ sync' = Disturb(sync)
    /\ UNCHANGED <<pass, pending, storage, bucket, django_settings, settings, saved>>

\* cls(**kwargs): S3Storage.__init__; a constructor that raises leaves no
\* instance
Construct(cls, kwargs) ==
    LET r == S3Storage__init__(cls, kwargs, django_settings) IN
        /\ storage' = IF r.raised = "none" THEN [cls |-> cls, _kwargs |-> kwargs]
                      ELSE NoStorage
        /\ settings' = r.settings
        /\ ret' = [NoRet EXCEPT !.op = "init", !.name = cls, !.value = kwargs,
                                !.raised = r.raised, !.data = r.warnings]
        /\ sync' = SyncIdle
        /\ UNCHANGED <<pass, pending, connections, bucket, django_settings, saved>>

\* S3Storage._setting_changed_received for an AWS_* setting
SettingChanged(env) ==
    /\ env # django_settings
    /\ django_settings' = env
    /\ settings' = IF storage = NoStorage THEN settings
                   ELSE _setup_class(storage.cls, storage._kwargs, env)
    /\ ret' = [NoRet EXCEPT !.raised = IF storage = NoStorage THEN "none"
                                        ELSE _setup_validate(settings').raised]
    /\ sync' = Disturb(sync)
    /\ UNCHANGED <<pass, pending, connections, storage, bucket, saved>>

\* ------------------------------------------------------- sync_meta_iter

\* mutant: the loop variable stays at the first listed entry
EntryNameFirst(sy, s) == RelPath(sy.listing[1], s.AWS_S3_KEY_PREFIX)

\* the logical name of the listed entry the generator is at, line 485
EntryName(sy, s) == RelPath(sy.listing[sy.i], s.AWS_S3_KEY_PREFIX)

\* the for loops move to the next listed entry, or the generator returns
NextEntry(sy) ==
    IF sy.i < Len(sy.listing)
    THEN [sy EXCEPT !.pc = "fetch", !.i = @ + 1, !.obj = NoObj]
    ELSE [sy EXCEPT !.pc = "done", !.obj = NoObj]

\* the first next(): lines 478-482, the listing under the key prefix
SyncStart ==
    /\ sync.pc \in {"idle", "done"}
    /\ LET listing == list_objects_v2(bucket, settings.AWS_S3_KEY_PREFIX) IN
        sync' = [pc |-> IF listing = <<>> THEN "done" ELSE "fetch",
                 listing |-> listing,
                 i |-> IF listing = <<>> THEN 0 ELSE 1,
                 obj |-> NoObj,
                 yielded |-> <<>>,
                 copied |-> {},
                 clean |-> TRUE,
                 swallowed |-> "none",
                 \* the keys the iteration that has just ended copied, when
                 \* nothing was called in between
                 prev |-> IF sync.pc = "done" /\ sync.clean THEN sync.copied ELSE {}]
    /\ ret' = NoRet
    /\ UNCHANGED <<pass, pending, connections, storage, bucket, django_settings, settings, saved>>

\* mutant: an entry whose headers cannot be read ends the iteration
SkipRaises(sy, code) == [sy EXCEPT !.pc = "raised", !.obj = NoObj]

\* lines 488-492: except OSError: continue
Skip(sy, code) == [NextEntry(sy) EXCEPT !.swallowed = code]

\* lines 486-492: the headers of the entry; fault is the failure the backend
\* answers the request with, "none" when it serves it
SyncFetch(fault) ==
    /\ sync.pc = "fetch"
    /\ LET m == meta_under(bucket, settings, EntryName(sync, settings), fault)
       IN sync' = IF m.raised # "none"
                  THEN Skip(sync, m.obj.code)
                  ELSE [sync EXCEPT !.pc = "copy", !.obj = m.obj.headers,
                                    !.swallowed = "none"]
    /\ ret' = NoRet
    /\ UNCHANGED <<pass, pending, connections, storage, bucket, django_settings, settings, saved>>

\* line 514: the generator is suspended with the name it has just copied
Yield(sy, name, key) ==
    [sy EXCEPT !.pc = "yielded", !.yielded = Append(@, name), !.copied = @ \cup {key}]

\* lines 493-514: the copy in place, then the yield
SyncCopy ==
    /\ sync.pc = "copy"
    /\ LET name == EntryName(sync, settings)
           key == _get_key_name(settings, name)
           put_params == SyncParams(settings, name, sync.obj)
       IN IF key \in DOMAIN bucket
          THEN /\ bucket' = copy_object_replace(bucket, key, key, put_params)
               /\ sync' = Yield(sync, name, key)
          ELSE \* the ClientError of copy_object leaves the generator
               /\ bucket' = bucket
               /\ sync' = [sync EXCEPT !.pc = "raised"]
    /\ ret' = NoRet
    /\ UNCHANGED <<pass, pending, connections, storage, django_settings, settings, saved>>

\* the consumer's next next()
SyncResume ==
    /\ sync.pc = "yielded"
    /\ sync' = NextEntry(sync)
    /\ ret' = NoRet
    /\ UNCHANGED <<pass, pending, connections, storage, bucket, django_settings, settings, saved>>

\* the process dies, or the consumer drops the generator
SyncAbandon ==
    /\ sync.pc \in {"fetch", "copy", "yielded"}
    /\ sync' = SyncIdle
    /\ ret' = NoRet
    /\ UNCHANGED <<pass, pending, connections, storage, bucket, django_settings, settings, saved>>

\* ------------------------------------------------------ specifications

\* one thread: the other calls happen while the generator is suspended
Next ==
    \/ \E name \in Names, content \in Contents : Suspended /\ Save(name, content)
    \/ \E name \in Names : Suspended /\ Delete(name)
    \/ \E env \in Environments : Suspended /\ SettingChanged(env)
    \/ SyncStart
    \/ SyncFetch("none")
    \/ SyncCopy
    \/ SyncResume
    \/ SyncAbandon

Spec == Init /\ [][Next]_vars

\* single saves, with every name and every content of the bounds

InitSave ==
    /\ bucket = EmptyBucket
    /\ django_settings \in SaveEnvironments
    /\ settings = _setup(_kwargs, django_settings)
    /\ sync = SyncIdle
    /\ ret = NoRet
    /\ saved = EmptyBucket
    /\ storage = DefaultStorage
    /\ pass = NoPass
    /\ pending = NoPending
    /\ connections = NoConnections

\* the names whose key is stored
StoredNames == {name \in AllNames : _get_key_name(settings, name) \in DOMAIN bucket}

\* a save into the empty bucket
SaveFresh(name, content) ==
    /\ bucket = EmptyBucket
    /\ Save(name, content)

\* a save over the stored object
SaveOver(name, content) ==
    /\ content.pos = 0
    /\ Save(name, content)

NextSave ==
    \/ \E name \in AllNames, content \in AllContents : SaveFresh(name, content)
    \/ \E name \in StoredNames, content \in AllContents : SaveOver(name, content)
    \/ \E name \in StoredNames : Delete(name)

SpecSave == InitSave /\ [][NextSave]_vars

\* the failures, other than an absent key, the backend answers a request with
Faults == {"AccessDenied", "InternalError"}

Answers == Faults \cup {"none"}

\* the backend may fail the metadata and the listing requests
NextFault ==
    \/ \E name \in Names, content \in Contents : Suspended /\ Save(name, content)
    \/ \E name \in Names, head_fault \in Answers, list_fault \in Answers :
           Suspended /\ Exists(name, head_fault, list_fault)
    \/ \E name \in Names, content \in Contents \cup {File(TRUE, <<"a", "a">>, 0)},
          fault \in {"compress", "upload"} :
           Suspended /\ SaveFails(name, content, fault)
    \/ SyncStart
    \/ \E fault \in Answers : SyncFetch(fault)
    \/ SyncCopy
    \/ SyncResume

SpecFault == Init /\ [][NextFault]_vars

\* the calls of the storage API, one after the other, with no sync running

\* the modes open is called with
Modes == {"rb", "wb", "r"}

\* the names saved: those of Names, a name two directories deep, and a name
\* with a ".." segment
OpsNames ==
    Names \cup {<<"d", "/", "d", "/", "a", ".txt">>,
                <<"d", "/", ".", ".", "/", "a", ".txt">>}

\* the names and paths asked about: the names saved, a name with a "."
\* segment, the root, the directories with and without slashes, a file taken
\* as a directory, and names that are the beginning of a stored name
QueryNames ==
    OpsNames \cup {<<".", "/", "a", ".txt">>, <<>>, <<"d">>, <<"/", "d">>, <<"d", "/">>,
                   <<"d", "/", "d">>, <<"a", ".txt", "/">>, <<"a">>, <<"d", "/", "c">>}

NextOps ==
    \/ \E name \in OpsNames, content \in Contents : Save(name, content)
    \/ \E name \in OpsNames : Delete(name)
    \/ \E name \in QueryNames, mode \in Modes : Open(name, mode)
    \/ \E name \in QueryNames : Meta(name)
    \/ \E path \in QueryNames : Listdir(path)
    \/ \E name \in QueryNames : Size(name)
    \/ \E name \in QueryNames : Exists(name, "none", "none")

SpecOps == Init /\ [][NextOps]_vars

\* saves of names that are taken, with and without AWS_S3_FILE_OVERWRITE

NameEnvironments == {ProjectSettings, OverwriteSettings}

\* the contents saved: one that gzip shrinks and one that it does not
TwoContents == Contents \cup {File(FALSE, <<0, 1>>, 0)}

\* the names deleted: the names saved and their alternatives
AltNames == Names \cup {get_alternative_name(name, r) : name \in Names, r \in RandomStrings}

InitNames ==
    /\ bucket = EmptyBucket
    /\ django_settings \in NameEnvironments
    /\ settings = _setup(_kwargs, django_settings)
    /\ sync = SyncIdle
    /\ ret = NoRet
    /\ saved = EmptyBucket
    /\ storage = DefaultStorage
    /\ pass = NoPass
    /\ pending = NoPending
    /\ connections = NoConnections

NextNames ==
    \/ \E name \in Names, content \in TwoContents : Save(name, content)
    \/ \E name \in AltNames : Delete(name)

SpecNames == InitNames /\ [][NextNames]_vars

\* sync_meta runs on one thread while other threads save and delete: their
\* requests reach the backend between any two requests of the iteration
NextRace ==
    \/ \E name \in {<<"a", ".txt">>, <<"b", ".png">>}, content \in TwoContents :
           Save(name, content)
    \/ \E name \in {<<"a", ".txt">>, <<"b", ".png">>} : Delete(name)
    \/ SyncStart
    \/ SyncFetch("none")
    \/ SyncCopy
    \/ SyncResume

SpecRace == Init /\ [][NextRace]_vars

\* two threads save at the same time: the request of get_available_name and
\* the upload of one save are apart, and the other thread's come in between
NextTwoSaves ==
    \/ \E t \in Threads, name \in {<<"a", ".txt">>, <<"b", ".png">>}, content \in TwoContents :
           SaveCheck(t, name, content)
    \/ \E t \in Threads : SaveUpload(t)

SpecTwoSaves == InitNames /\ [][NextTwoSaves]_vars

\* a storage with a key prefix, in a bucket it shares with a storage whose
\* prefix begins with the same characters

\* settings.py sets AWS_S3_KEY_PREFIX (line 23); here it is "a"
PrefixEnvironments ==
    {[AWS_S3_KEY_PREFIX |-> <<"a">>] @@ OverwriteSettings,
     [AWS_S3_KEY_PREFIX |-> <<"a">>, AWS_S3_MAX_AGE_SECONDS |-> 9999] @@ OverwriteSettings}

InitPrefix ==
    /\ bucket = EmptyBucket
    /\ django_settings = [AWS_S3_KEY_PREFIX |-> <<"a">>] @@ OverwriteSettings
    /\ settings = _setup(_kwargs, django_settings)
    /\ sync = SyncIdle
    /\ ret = NoRet
    /\ saved = EmptyBucket
    /\ storage = DefaultStorage
    /\ pass = NoPass
    /\ pending = NoPending
    /\ connections = NoConnections

NextPrefix ==
    \/ \E name \in {<<"a", ".txt">>, <<"b", ".png">>}, content \in Contents :
           Suspended /\ Save(name, content)
    \/ \E content \in Contents :
           Suspended /\ SaveOther(<<"a", "b">>, <<"c", ".txt">>, content)
    \/ \E env \in PrefixEnvironments : Suspended /\ SettingChanged(env)
    \/ SyncStart
    \/ SyncFetch("none")
    \/ SyncCopy
    \/ SyncResume

SpecPrefix == InitPrefix /\ [][NextPrefix]_vars

\* construction and the rebuilding of the settings

\* the values the project's settings take: settings.py, then the settings of
\* testSettingsImported and testSettingsOverwritenBySuffixedSettings, a public
\* URL as in testPublicUrl, regions, and a project with no static bucket
ConfigEnvironments ==
    {ProjectSettings,
     [AWS_S3_CONTENT_LANGUAGE |-> Fixed(<<"foo">>)] @@ ProjectSettings,
     [AWS_S3_CONTENT_LANGUAGE |-> Fixed(<<"foo">>),
      AWS_S3_CONTENT_LANGUAGE_STATIC |-> Fixed(<<"bar">>)] @@ ProjectSettings,
     [AWS_S3_PUBLIC_URL |-> <<"/foo/">>] @@ ProjectSettings,
     [AWS_REGION |-> <<"eu-central-1">>, AWS_REGION_STATIC |-> <<"ap-south-1">>]
         @@ ProjectSettings,
     [AWS_S3_BUCKET_NAME |-> <<"bucket">>]}

\* one keyword argument
OneKwarg(key, lower, value) == [k \in {Kwarg(key, lower)} |-> value]

\* the keyword arguments storages are constructed with: none, a setting in
\* lower case as in testSettingsOverwrittenByKwargs, the same in upper case,
\* foo=True as in testSettingsUnknown, a public URL, a region
KwargsChoices ==
    {_kwargs,
     OneKwarg("AWS_S3_CONTENT_LANGUAGE", TRUE, Fixed(<<"baz">>)),
     OneKwarg("AWS_S3_CONTENT_LANGUAGE", FALSE, Fixed(<<"baz">>)),
     OneKwarg("FOO", TRUE, TRUE),
     OneKwarg("AWS_S3_PUBLIC_URL", TRUE, <<"/foo/">>),
     OneKwarg("AWS_REGION", TRUE, <<"us-west-2">>)}

InitConfig ==
    /\ bucket = EmptyBucket
    /\ django_settings \in ConfigEnvironments
    /\ settings = <<>>
    /\ sync = SyncIdle
    /\ ret = NoRet
    /\ saved = EmptyBucket
    /\ storage = NoStorage
    /\ pass = NoPass
    /\ pending = NoPending
    /\ connections = NoConnections

NextConfig ==
    \/ \E cls \in Classes, kwargs \in KwargsChoices : Construct(cls, kwargs)
    \/ \E env \in ConfigEnvironments : SettingChanged(env)

SpecConfig == InitConfig /\ [][NextConfig]_vars

\* copies and renames, which the backend may fail

\* the failure the backend answers a copy or a deletion with
CopyFaults == {"none", "AccessDenied"}

NextCopy ==
    \/ \E name \in Names, content \in Contents : Save(name, content)
    \/ \E src_name \in Names, dst_name \in Names, fault \in CopyFaults :
           Copy(src_name, dst_name, fault)
    \/ \E src_name \in Names, dst_name \in Names, copy_fault \in CopyFaults,
          delete_fault \in CopyFaults :
           Rename(src_name, dst_name, copy_fault, delete_fault)

SpecCopy == Init /\ [][NextCopy]_vars

\* collectstatic: the static files are saved, then post_process stores them
\* once more under their hashed names; the settings of the project stay as
\* they are while the command runs

\* the settings of the project for its static files
PassEnvironments ==
    {ProjectSettings,
     [AWS_S3_MAX_AGE_SECONDS_STATIC |-> 9999] @@ ProjectSettings,
     [AWS_S3_MAX_AGE_SECONDS_CACHED_STATIC |-> 86400] @@ ProjectSettings}

\* the static files
StaticNames == {<<"c", ".js">>, <<"b", ".png">>}

InitPass ==
    /\ bucket = EmptyBucket
    /\ django_settings \in PassEnvironments
    /\ settings = _setup_class("ManifestStaticS3Storage", _kwargs, django_settings)
    /\ sync = SyncIdle
    /\ ret = NoRet
    /\ saved = EmptyBucket
    /\ storage = [cls |-> "ManifestStaticS3Storage", _kwargs |-> _kwargs]
    /\ pass = NoPass
    /\ pending = NoPending
    /\ connections = NoConnections

NextPass ==
    \/ \E name \in StaticNames, content \in Contents : pass.pc = "idle" /\ Save(name, content)
    \/ \E env \in PassEnvironments : pass.pc = "idle" /\ SettingChanged(env)
    \/ PassBegin
    \/ \E name \in StaticNames, content \in Contents : PassSave(name, content)
    \/ \E exit \in {"return", "raise", "close"} : PassEnd(exit)

SpecPass == InitPass /\ [][NextPass]_vars

\* a process that serves requests while a pass runs: other threads save files
\* and the setting_changed signal arrives at any point of the pass
NextPassRace ==
    \/ \E content \in Contents : Save(<<"c", ".js">>, content)
    \/ \E env \in PassEnvironments : SettingChanged(env)
    \/ PassBegin
    \/ \E content \in Contents : PassSave(<<"c", ".js">>, content)
    \/ \E exit \in {"return", "raise", "close"} : PassEnd(exit)

SpecPassRace == InitPass /\ [][NextPassRace]_vars

\* the threads of a process use the storage, and the setting_changed signal
\* arrives on any of them

\* default_storage was constructed on the thread t1
InitThreads ==
    /\ bucket = EmptyBucket
    /\ django_settings = OverwriteSettings
    /\ settings = _setup(_kwargs, django_settings)
    /\ sync = SyncIdle
    /\ ret = NoRet
    /\ saved = EmptyBucket
    /\ storage = DefaultStorage
    /\ pass = NoPass
    /\ pending = NoPending
    /\ connections = _Local([locals |-> <<>>, owner |-> <<>>,
                              held |-> [t \in Threads |-> 0],
                              users |-> [c \in 1..MaxClients |-> {}]], "t1")

NextThreads ==
    \/ \E t \in Threads, env \in Environments : ThreadSettingChanged(t, env)
    \/ \E t \in Threads : ThreadAcquire(t)
    \/ \E t \in Threads : ThreadRequest(t, <<"a", ".txt">>)

SpecThreads == InitThreads /\ [][NextThreads]_vars

\* ------------------------------------------------------------- properties

\* the key and the stored object of the name the last save returned
SavedKey == _get_key_name(settings, ret.name)

SavedObj == bucket[SavedKey]

Gzip == <<"gzip">>

\* the content types of TypesMap whose family is text or whose subtype, after
\* the part up to a "+" is stripped, is xml, json, html or javascript
CompressibleTypes ==
    {<<"text", "/", "plain">>, <<"text", "/", "html">>, <<"image", "/", "svg", "+", "xml">>,
     <<"application", "/", "json">>, <<"application", "/", "javascript">>,
     <<"application", "/", "xml">>}

\* C1: after save(name, B), opening the name save returned raises nothing and
\* reads exactly B (the UTF-8 encoding of B for text-mode content), whether the
\* body was stored gzip-compressed or not.
C1_RoundTrip ==
    ret.op = "save" =>
        LET r == _open(bucket, settings, ret.name, "rb") IN
            /\ r.raised = "none"
            /\ r.data = saved[SavedKey]

\* a save of content that was stored gzip-compressed
C1_Witness ==
    /\ ret.op = "save"
    /\ SavedObj.ContentEncoding = Gzip
    /\ SavedObj.Body # saved[SavedKey]
    /\ Len(saved[SavedKey]) = MaxLen

\* C3: when save attempts compression (gzip enabled, compressible content
\* type), the stored object has ContentEncoding gzip only if its body is the
\* gzipped content and strictly smaller than the original; when the gzipped
\* content is as large or larger, the body is the whole original content and
\* there is no ContentEncoding.
C3_StrictlySmaller ==
    (ret.op = "save" /\ settings.AWS_S3_GZIP /\ SavedObj.ContentType \in CompressibleTypes) =>
        LET orig == saved[SavedKey]
            gzipped == GzipCompress(orig)
        IN /\ SavedObj.ContentEncoding = Gzip =>
                (SavedObj.Body = gzipped /\ Len(gzipped) < Len(orig))
           /\ Len(gzipped) >= Len(orig) =>
                (SavedObj.Body = orig /\ SavedObj.ContentEncoding = <<>>)

\* a save of compressible content whose gzipped form is exactly as large
C3_Witness ==
    /\ ret.op = "save"
    /\ settings.AWS_S3_GZIP
    /\ SavedObj.ContentType \in CompressibleTypes
    /\ saved[SavedKey] # <<>>
    /\ Len(GzipCompress(saved[SavedKey])) = Len(saved[SavedKey])
    /\ SavedObj.Body = saved[SavedKey]

\* C4: unless gzip is enabled and the content type guessed from the name is
\* compressible, the object a save stores has no ContentEncoding and no
\* uncompressed_size metadata.
C4_CompressionGate ==
    (ret.op = "save" /\ ~(settings.AWS_S3_GZIP /\ SavedObj.ContentType \in CompressibleTypes)) =>
        /\ SavedObj.ContentEncoding = <<>>
        /\ UNCOMPRESSED_SIZE_META_KEY \notin DOMAIN SavedObj.Metadata
        /\ SavedObj.Body = saved[SavedKey]

\* gzip is enabled, the content would shrink, but the type is one whose
\* subtype only starts with a compressible word
C4_Witness ==
    /\ ret.op = "save"
    /\ settings.AWS_S3_GZIP
    /\ SavedObj.ContentType = <<"application", "/", "xml-dtd">>
    /\ Len(GzipCompress(saved[SavedKey])) < Len(saved[SavedKey])
    /\ SavedObj.ContentEncoding = <<>>

Running == sync.pc \in {"fetch", "copy"}

\* the key of the listed entry the generator is at
EntryKey == sync.listing[sync.i]

SameSize(o1, o2) ==
    /\ (UNCOMPRESSED_SIZE_META_KEY \in DOMAIN o1.Metadata) <=>
           (UNCOMPRESSED_SIZE_META_KEY \in DOMAIN o2.Metadata)
    /\ UNCOMPRESSED_SIZE_META_KEY \in DOMAIN o1.Metadata =>
           o1.Metadata[UNCOMPRESSED_SIZE_META_KEY] = o2.Metadata[UNCOMPRESSED_SIZE_META_KEY]

\* C5: no step of sync_meta_iter adds or removes an object, or changes the
\* ContentType, the ContentEncoding, the body or the recorded uncompressed size
\* of one.
C5_SyncKeepsContent ==
    [][Running =>
        /\ DOMAIN bucket' = DOMAIN bucket
        /\ \A k \in DOMAIN bucket :
            /\ bucket'[k].ContentType = bucket[k].ContentType
            /\ bucket'[k].ContentEncoding = bucket[k].ContentEncoding
            /\ bucket'[k].Body = bucket[k].Body
            /\ SameSize(bucket'[k], bucket[k])]_vars

\* the copy of a gzipped object has just changed its policy headers
C5_Witness ==
    /\ sync.pc = "yielded"
    /\ sync.clean
    /\ bucket[EntryKey].ContentEncoding = Gzip
    /\ bucket[EntryKey].StorageClass = "REDUCED_REDUNDANCY"

\* the headers and the custom metadata a save of name would send now
SaveWouldAssign(name) == _save(settings, name, File(FALSE, <<>>, 0)).put_params

CustomMetadata(o) ==
    [m \in (DOMAIN o.Metadata) \ {UNCOMPRESSED_SIZE_META_KEY} |-> o.Metadata[m]]

UpToDate(k) ==
    LET want == SaveWouldAssign(RelPath(k, settings.AWS_S3_KEY_PREFIX)) IN
        /\ \A h \in {"ACL", "CacheControl", "StorageClass", "ContentDisposition",
                     "ContentLanguage", "ServerSideEncryption"} : bucket[k][h] = want[h]
        /\ CustomMetadata(bucket[k]) = want.Metadata

\* C6: when an iteration that nothing disturbed is over, every object under
\* the key prefix has the ACL, CacheControl, StorageClass, ContentDisposition,
\* ContentLanguage, ServerSideEncryption and custom metadata a save of its name
\* under the current settings would assign.
C6_SyncAppliesSettings ==
    (sync.pc = "done" /\ sync.clean) =>
        \A k \in DOMAIN bucket :
            StartsWith(k, settings.AWS_S3_KEY_PREFIX) => UpToDate(k)

\* a whole iteration under the settings of testSyncMeta over objects of which
\* one was saved gzipped, so under the other settings
C6_Witness ==
    /\ sync.pc = "done"
    /\ sync.clean
    /\ Len(sync.yielded) >= 2
    /\ ~settings.AWS_S3_BUCKET_AUTH
    /\ \E k \in DOMAIN bucket : bucket[k].ContentEncoding = Gzip

\* C7: the copy of an object that the iteration just before this one copied,
\* with no call in between, changes nothing.
C7_SyncIdempotent ==
    [][(sync.pc = "copy" /\ EntryKey \in sync.prev) => bucket' = bucket]_vars

\* the second iteration in a row has copied an object again
C7_Witness ==
    /\ sync.pc = "yielded"
    /\ EntryKey \in sync.prev
    /\ EntryKey \in sync.copied

\* C8: when the listed entry is gone at the fetch of its headers, the
\* generator issues no copy, yields nothing, does not raise, and moves on to
\* the next listed entry, or returns after the last one.
C8_SkipVanished ==
    [][(sync.pc = "fetch" /\ EntryKey \notin DOMAIN bucket /\ sync' # SyncIdle) =>
        /\ bucket' = bucket
        /\ sync'.yielded = sync.yielded
        /\ sync'.copied = sync.copied
        /\ sync'.listing = sync.listing
        /\ IF sync.i < Len(sync.listing)
           THEN sync'.pc = "fetch" /\ sync'.i = sync.i + 1
           ELSE sync'.pc = "done"]_vars

\* an entry deleted after the listing was skipped, and the generator is at the
\* entry after it
C8_Witness ==
    /\ sync.pc = "fetch"
    /\ sync.swallowed = "404"
    /\ sync.i = 3
    /\ sync.listing[2] \notin DOMAIN bucket
    /\ EntryKey \in DOMAIN bucket
    /\ Len(sync.yielded) = 1

\* C9: a failure of the backend other than an absent key is never turned into
\* a normal result: exists raises when its metadata request fails so, and
\* sync_meta_iter does not skip the entry whose fetch fails so.
C9_OnlyVanishedSwallowed ==
    /\ (ret.op = "exists" /\ ret.fault \in Faults) => ret.raised # "none"
    /\ sync.swallowed \in Faults => sync.pc = "raised"

\* a step of the generator: its body runs, or next() moves it
GeneratorStep ==
    Running \/ sync'.pc \in {"fetch", "copy", "done", "raised"}

\* C10: a step of sync_meta_iter changes at most the object of the entry it is
\* at, so the entries not yet visited are untouched whenever it stops; the
\* entries are visited one at a time in the order of the listing; the headers
\* of an entry are fetched, from the stored object, before its copy; the name
\* of an entry is yielded by the step that copies it; and while nothing
\* disturbs the iteration every name yielded so far has up-to-date headers.
C10_SyncOrder ==
    /\ [][GeneratorStep =>
            /\ sync.pc = "copy" =>
                  \A k \in DOMAIN bucket \cup DOMAIN bucket' :
                      k # EntryKey => (k \in DOMAIN bucket /\ k \in DOMAIN bucket'
                                       /\ bucket'[k] = bucket[k])
            /\ sync.pc # "copy" => bucket' = bucket
            /\ (Running /\ sync' # SyncIdle) =>
                  (sync'.listing = sync.listing /\ sync'.i \in {sync.i, sync.i + 1})
            /\ sync'.pc = "copy" =>
                  /\ sync.pc = "fetch"
                  /\ sync'.i = sync.i
                  /\ sync'.obj = head_object(bucket, EntryKey).headers
            /\ sync'.yielded # sync.yielded /\ sync' # SyncIdle /\ sync.pc # "idle" /\ sync.pc # "done" =>
                  /\ sync.pc = "copy"
                  /\ sync'.pc = "yielded"
                  /\ sync'.i = sync.i
                  /\ sync'.yielded =
                        Append(sync.yielded, RelPath(EntryKey, settings.AWS_S3_KEY_PREFIX))]_vars
    /\ [](sync.pc \in {"fetch", "copy", "yielded", "done"} /\ sync.clean =>
            \A j \in 1..Len(sync.yielded) :
                LET k == _get_key_name(settings, sync.yielded[j]) IN
                    /\ k \in DOMAIN bucket
                    /\ UpToDate(k))

\* the iteration stands between its first and its second entry: the first has
\* the headers of the current settings, the second still those it was saved with
C10_Witness ==
    /\ sync.pc = "fetch"
    /\ sync.i = 2
    /\ sync.clean
    /\ Len(sync.yielded) = 1
    /\ ~settings.AWS_S3_BUCKET_AUTH
    /\ bucket[sync.listing[1]].ACL = "public-read"
    /\ EntryKey \in DOMAIN bucket
    /\ bucket[EntryKey].ACL = "private"

\* the decimal digits of the values the max-age setting takes
MaxAgeDigits(n) ==
    CASE n = 3600 -> <<"3", "6", "0", "0">>
      [] n = 9999 -> <<"9", "9", "9", "9">>

\* the ACL and the CacheControl the settings in force call for
HasAuthHeaders(o, s) ==
    IF s.AWS_S3_BUCKET_AUTH
    THEN /\ o.ACL = "private"
         /\ o.CacheControl = <<"private", ",max-age=">> \o MaxAgeDigits(s.AWS_S3_MAX_AGE_SECONDS)
    ELSE /\ o.ACL = "public-read"
         /\ o.CacheControl = <<"public", ",max-age=">> \o MaxAgeDigits(s.AWS_S3_MAX_AGE_SECONDS)

RetKey == _get_key_name(settings, ret.name)

\* C12: open in a mode other than "rb" raises ValueError, whether the object
\* is stored or not, sends no request to the backend and leaves the bucket as
\* it was.
C12_OpenReadOnly ==
    [][(ret'.op = "open" /\ ret'.mode # "rb") =>
        /\ ret'.raised = "ValueError"
        /\ ret'.requests = <<>>
        /\ bucket' = bucket]_vars

\* a name that is not stored was opened for writing while other objects are
C12_Witness ==
    /\ ret.op = "open"
    /\ ret.mode = "wb"
    /\ RetKey \notin DOMAIN bucket
    /\ bucket # EmptyBucket
    /\ ret.raised = "ValueError"

\* C13: open and meta of a name whose key is not stored raise
\* FileNotFoundError.
C13_NotFoundError ==
    (ret.op \in {"open", "meta"} /\ ret.requests # <<>> /\ RetKey \notin DOMAIN bucket) =>
        ret.raised = "FileNotFoundError"

\* C14: no storage instance has both a public URL and bucket auth in its
\* settings: its construction, or the change of settings that would bring it
\* there, fails.
C14_ConflictRejected ==
    storage # NoStorage => ~(settings.AWS_S3_PUBLIC_URL # <<>> /\ settings.AWS_S3_BUCKET_AUTH)

\* the setting keys that are read without the suffix of the class
AuthKeys == {"AWS_REGION"}

SettingKeys == AuthKeys \cup DOMAIN default_s3_settings

ClassDefault(cls, key) ==
    IF key \in AuthKeys THEN <<"us-east-1">>
    ELSE IF key = "AWS_S3_BUCKET_AUTH" THEN cls # "StaticS3Storage"
    ELSE default_s3_settings[key]

\* the value of a key: the keyword argument, else the Django setting of the
\* name given, else the default of the class
Layered(key, name) ==
    IF Kwarg(key, TRUE) \in DOMAIN storage._kwargs THEN storage._kwargs[Kwarg(key, TRUE)]
    ELSE IF name \in DOMAIN django_settings THEN django_settings[name]
    ELSE ClassDefault(storage.cls, key)

UnknownKwargs(kwargs) == {k \in DOMAIN kwargs : k.key \notin SettingKeys}

\* C15 as stated: every key, the authentication keys too, is looked up in the
\* Django settings under its name followed by the suffix of the class.
C15_SuffixForEveryKey ==
    storage # NoStorage =>
        \A key \in SettingKeys :
            settings[key] = Layered(key, key \o s3_settings_suffix(storage.cls))

\* C15, amended: the value of a setting key is the keyword argument named by
\* the key in lower case if given, else the Django setting named by the key
\* followed by the suffix of the class for the AWS_S3_* keys and by the key
\* alone for the authentication keys, else the default of the class; so it
\* is after construction and after every change of an AWS_* setting; and a
\* keyword argument that names no setting makes construction raise
\* ImproperlyConfigured and leave no instance.
C15_SettingsPrecedence ==
    /\ storage # NoStorage =>
        /\ DOMAIN settings = SettingKeys
        /\ \A key \in SettingKeys :
            settings[key] = Layered(key, IF key \in AuthKeys THEN key
                                         ELSE key \o s3_settings_suffix(storage.cls))
    /\ (ret.op = "init" /\ UnknownKwargs(ret.value) # {}) =>
        (ret.raised = "ImproperlyConfigured" /\ storage = NoStorage)

\* a static storage built with a keyword argument, its settings rebuilt after
\* a change of the project's settings that define a suffixed language and
\* regions
C15_Witness ==
    /\ storage.cls = "StaticS3Storage"
    /\ ret.op = "none"
    /\ "AWS_REGION_STATIC" \in DOMAIN django_settings
    /\ settings.AWS_REGION = <<"eu-central-1">>
    /\ DOMAIN storage._kwargs # {}

Range(seq) == {seq[i] : i \in 1..Len(seq)}

NoRepeat(seq) == Cardinality(Range(seq)) = Len(seq)

\* the segments of the stored names that lie under the path of segments P
Under(P) ==
    {c \in {PathList(k) : k \in DOMAIN bucket} :
        Len(c) > Len(P) /\ SubSeq(c, 1, Len(P)) = P}

\* C16: listdir(path) returns as files the stored names directly under path
\* and as dirs the first segments of the stored names deeper under it, each
\* once and relative to path; the lists are empty when nothing is stored; and
\* path with a leading or a trailing slash added gives the same lists.
C16_Listdir ==
    ret.op = "listdir" =>
        LET P == PathList(ret.name) IN
            /\ Range(ret.value.files) = {c[Len(P) + 1] : c \in {u \in Under(P) : Len(u) = Len(P) + 1}}
            /\ Range(ret.value.dirs) = {c[Len(P) + 1] : c \in {u \in Under(P) : Len(u) > Len(P) + 1}}
            /\ NoRepeat(ret.value.files)
            /\ NoRepeat(ret.value.dirs)
            /\ bucket = EmptyBucket => ret.value = [dirs |-> <<>>, files |-> <<>>]
            /\ (ret.name = <<>> \/ Head(ret.name) # "/") =>
                   listdir(bucket, settings, <<"/">> \o ret.name) = ret.value
            /\ (ret.name = <<>> \/ Last(ret.name) # "/") =>
                   listdir(bucket, settings, ret.name \o <<"/">>) = ret.value

\* the directory d, asked for with a leading slash, holds a file and a
\* directory with a file of its own
C16_Witness ==
    /\ ret.op = "listdir"
    /\ ret.name = <<"/", "d">>
    /\ ret.value.dirs = << <<"d">> >>
    /\ ret.value.files = << <<"c", ".svg">> >>
    /\ <<"a", ".txt">> \in DOMAIN bucket

\* four spellings of one name: plain, with a leading slash, with a "."
\* segment, and through a directory and ".." back
Aliases ==
    {<<"a", ".txt">>, <<"/", "a", ".txt">>, <<".", "/", "a", ".txt">>,
     <<"d", "/", ".", ".", "/", "a", ".txt">>}

\* C17: equivalent names resolve to one key, so that after a save under one
\* spelling the object is there under every spelling, and open, meta, size
\* and exists called with one spelling give what they give with any other.
C17_EquivalentNames ==
    /\ \A n \in Aliases : _get_key_name(settings, n) = <<"a", ".txt">>
    /\ \A n \in {<<"d">>, <<"/", "d">>, <<"d", "/">>} : _get_key_name(settings, n) = <<"d">>
    /\ (ret.op = "save" /\ ret.name \in Aliases) =>
        \A n \in Aliases :
            /\ _open(bucket, settings, n, "rb").data = saved[<<"a", ".txt">>]
            /\ meta(bucket, settings, n).raised = "none"
            /\ exists(bucket, settings, n)
    /\ (ret.op = "open" /\ ret.name \in Aliases) =>
        \A n \in Aliases :
            LET r == _open(bucket, settings, n, ret.mode) IN
                r.raised = ret.raised /\ r.data = ret.data
    /\ (ret.op = "meta" /\ ret.name \in Aliases) =>
        \A n \in Aliases : meta(bucket, settings, n).raised = ret.raised
    /\ (ret.op = "size" /\ ret.name \in Aliases /\ ret.raised = "none") =>
        \A n \in Aliases : size(bucket, settings, n) = ret.value
    /\ (ret.op = "exists" /\ ret.name \in Aliases) =>
        \A n \in Aliases : exists(bucket, settings, n) = ret.value

\* the name was saved with a leading slash and through "..", and is read
\* through ".."
C17_Witness ==
    /\ ret.op = "open"
    /\ ret.mode = "rb"
    /\ ret.name = <<"d", "/", ".", ".", "/", "a", ".txt">>
    /\ ret.raised = "none"
    /\ DOMAIN bucket = {<<"a", ".txt">>}
    /\ ret.data = saved[<<"a", ".txt">>]
    /\ ret.data # <<>>

\* C18: a save of a name whose key is stored returns, with
\* AWS_S3_FILE_OVERWRITE, that name, and the object at its key is the new
\* content; without it, another name whose key was not stored, where the new
\* content goes, while the object that was stored stays as it was.
C18_Overwrite ==
    [][(ret'.op = "save" /\ _get_key_name(settings, ret'.arg) \in DOMAIN bucket) =>
        LET old == _get_key_name(settings, ret'.arg)
            new == _get_key_name(settings, ret'.name)
        IN /\ new \in DOMAIN bucket'
           /\ _open(bucket', settings, ret'.name, "rb").data = saved'[new]
           /\ DOMAIN bucket' = DOMAIN bucket \cup {new}
           /\ IF settings.AWS_S3_FILE_OVERWRITE
              THEN ret'.name = ret'.arg
              ELSE /\ ret'.name # ret'.arg
                   /\ new \notin DOMAIN bucket
                   /\ bucket'[old] = bucket[old]
                   /\ saved'[old] = saved[old]]_vars

\* without AWS_S3_FILE_OVERWRITE a second save of a.txt, of another content,
\* went to an alternative name
C18_Witness ==
    /\ ~settings.AWS_S3_FILE_OVERWRITE
    /\ ret.op = "save"
    /\ ret.arg = <<"a", ".txt">>
    /\ ret.name # ret.arg
    /\ {_get_key_name(settings, ret.arg), _get_key_name(settings, ret.name)} \subseteq DOMAIN bucket
    /\ saved[_get_key_name(settings, ret.arg)] # saved[_get_key_name(settings, ret.name)]

IsDirectory(b, key) == \E k \in DOMAIN b : StartsWith(k, key \o <<"/">>)

\* C20 as stated: exists(name) is true exactly when an object is stored at
\* the key of name or the key of name is a directory.
C20_ExistsFileOrDirectory ==
    ret.op = "exists" =>
        ret.value = (RetKey \in DOMAIN bucket \/ IsDirectory(bucket, RetKey))

\* C20, amended: for a name that does not end with a slash, exists(name) is
\* true exactly when an object is stored at the key of name or the key is a
\* directory; for a name that ends with a slash, exactly when the key is a
\* directory, whether or not an object is stored at the key itself.  So it is
\* true of the name a save returned, false of the beginning of a stored name
\* that is not a directory, and false of a name whose object a delete removed
\* unless it is a directory.
C20_Exists ==
    /\ [](ret.op = "exists" =>
            ret.value = \/ (ret.name # <<>> /\ Last(ret.name) # "/" /\ RetKey \in DOMAIN bucket)
                        \/ IsDirectory(bucket, RetKey))
    /\ [](ret.op = "save" => exists(bucket, settings, ret.name))
    /\ [](\A n \in {<<"a">>, <<"d", "/", "c">>} : ~exists(bucket, settings, n))
    /\ [][\A n \in OpsNames :
            LET k == _get_key_name(settings, n) IN
                (k \in DOMAIN bucket /\ k \notin DOMAIN bucket' /\ ~IsDirectory(bucket', k)) =>
                    ~exists(bucket', settings, n)]_vars

\* a stored file asked about with a trailing slash
C20_Witness ==
    /\ ret.op = "exists"
    /\ ret.name = <<"a", ".txt", "/">>
    /\ RetKey \in DOMAIN bucket
    /\ ~ret.value
    /\ \E k \in DOMAIN bucket : k # RetKey

\* the keys of the source and of the destination of the copy or rename that
\* returns in the next state
SrcKey == _get_key_name(settings, ret'.name)

DstKey == _get_key_name(settings, ret'.arg)

\* C21: after rename(src, dst) with distinct keys, dst holds the body src had
\* and src is gone, while copy(src, dst) leaves both stored; rename sends the
\* copy before the deletion, so a copy that fails leaves the bucket, and with
\* it src, as it was.
C21_RenameCopy ==
    [][/\ (ret'.op \in {"copy", "rename"} /\ ret'.raised = "none") =>
            /\ SrcKey # DstKey
            /\ SrcKey \in DOMAIN bucket
            /\ DstKey \in DOMAIN bucket'
            /\ bucket'[DstKey].Body = bucket[SrcKey].Body
            /\ _open(bucket', settings, ret'.arg, "rb").data = saved[SrcKey]
            /\ IF ret'.op = "copy"
               THEN SrcKey \in DOMAIN bucket' /\ bucket'[SrcKey] = bucket[SrcKey]
               ELSE SrcKey \notin DOMAIN bucket'
       /\ ret'.op = "rename" =>
            /\ ret'.requests \in {<<"copy_object">>, <<"copy_object", "delete_object">>}
            /\ ret'.requests = <<"copy_object">> => ret'.raised # "none" /\ bucket' = bucket
       /\ (ret'.op = "copy" /\ ret'.raised # "none") => bucket' = bucket]_vars

\* a rename has moved the gzipped body of a text file to the key of an image,
\* and nothing is left at the key it came from
C21_Witness ==
    /\ ret.op = "rename"
    /\ ret.raised = "none"
    /\ ret.name = <<"a", ".txt">>
    /\ ret.arg = <<"b", ".png">>
    /\ <<"a", ".txt">> \notin DOMAIN bucket
    /\ bucket[<<"b", ".png">>].ContentEncoding = Gzip
    /\ bucket[<<"b", ".png">>].ContentType = <<"text", "/", "plain">>

\* the settings _setup builds from the project's settings as they are now
Configured == _setup_class(storage.cls, storage._kwargs, django_settings)

\* the CacheControl of a public file for the values the two max-age settings
\* take
PublicMaxAge(n) ==
    <<"public", ",max-age=">> \o
        CASE n = 3600 -> <<"3", "6", "0", "0">>
          [] n = 9999 -> <<"9", "9", "9", "9">>
          [] n = 86400 -> <<"8", "6", "4", "0", "0">>
          [] n = 31536000 -> <<"3", "1", "5", "3", "6", "0", "0", "0">>

\* C22: the pass of post_process starts by putting the cached max-age in the
\* place of AWS_S3_MAX_AGE_SECONDS, and its end, by return, by an exception
\* or by the closing of the generator, puts back the value from before the
\* pass; a file saved before or after the pass carries the normal max-age
\* and a hashed file saved during the pass carries the cached one.
C22_PassMaxAge ==
    [][/\ ret'.op = "post_process" =>
            /\ settings'.AWS_S3_MAX_AGE_SECONDS = Configured.AWS_S3_MAX_AGE_SECONDS_CACHED
            /\ pass'.initial_aws_s3_max_age_seconds = settings.AWS_S3_MAX_AGE_SECONDS
       /\ ret'.op = "post_process_end" =>
            /\ settings'.AWS_S3_MAX_AGE_SECONDS = pass.initial_aws_s3_max_age_seconds
            /\ settings' = Configured
       /\ ret'.op = "save" =>
            /\ pass.pc = "idle"
            /\ bucket'[_get_key_name(settings, ret'.name)].CacheControl =
                   PublicMaxAge(Configured.AWS_S3_MAX_AGE_SECONDS)
       /\ ret'.op = "post_process_save" =>
            /\ pass.pc = "running"
            /\ bucket'[_get_key_name(settings, ret'.name)].CacheControl =
                   PublicMaxAge(Configured.AWS_S3_MAX_AGE_SECONDS_CACHED)]_vars

\* a pass that ended with an exception: the file saved before it, its hashed
\* copy saved during it, and the max-age back at the default of one hour
C22_Witness ==
    /\ ret.op = "post_process_end"
    /\ ret.raised = "Exception"
    /\ settings.AWS_S3_MAX_AGE_SECONDS = 3600
    /\ <<"c", ".js">> \in DOMAIN bucket
    /\ bucket[<<"c", ".js">>].CacheControl = <<"public", ",max-age=", "3", "6", "0", "0">>
    /\ <<"c", ".md5", ".js">> \in DOMAIN bucket
    /\ bucket[<<"c", ".md5", ".js">>].CacheControl =
           <<"public", ",max-age=", "3", "1", "5", "3", "6", "0", "0", "0">>

\* C29: whenever no pass of post_process is in progress,
\* AWS_S3_MAX_AGE_SECONDS is the value configured now, also when a setting
\* change rebuilt the settings during a pass; and a file saved by another
\* thread during a pass carries the normal max-age, not the cached one.
C29_MaxAgeConfigured ==
    /\ [](pass.pc = "idle" =>
            settings.AWS_S3_MAX_AGE_SECONDS = Configured.AWS_S3_MAX_AGE_SECONDS)
    /\ [][ret'.op = "save" =>
            bucket'[_get_key_name(settings, ret'.name)].CacheControl =
                PublicMaxAge(Configured.AWS_S3_MAX_AGE_SECONDS)]_vars

\* the clients made so far
Clients == 1..Len(connections.owner)

\* the _Local objects built so far
Locals == 1..Len(connections.locals)

\* no client has sent requests for two threads
NeverShared == \A c \in Clients : Cardinality(connections.users[c]) <= 1

\* C23 as stated: every client is made at the first use of the storage by its
\* thread, and no client is used by two threads.
C23_LazyOnFirstUse ==
    /\ NeverShared
    /\ \A i \in Locals, t \in Threads :
           connections.locals[i].clients[t] # 0 => t \in connections.locals[i].accessed

\* C23: a thread sends its requests with a client of its own, which the
\* thread itself made, either when it built the connection manager (at the
\* construction of the storage or on a setting change it received) or at its
\* first read of the connection from that manager; no client is used by two
\* threads, whatever the interleaving of calls and rebuilds.
C23_ClientPerThread ==
    /\ NeverShared
    /\ \A c \in Clients : connections.users[c] \subseteq {connections.owner[c]}
    /\ \A t \in Threads :
           connections.held[t] # 0 => connections.owner[connections.held[t]] = t
    /\ \A i \in Locals, t \in Threads :
           LET l == connections.locals[i] IN
               /\ l.clients[t] # 0 =>
                      /\ connections.owner[l.clients[t]] = t
                      /\ t = l.builder \/ t \in l.accessed
               /\ t \in l.accessed => l.clients[t] # 0
               /\ \A u \in Threads \ {t} :
                      l.clients[t] # 0 => l.clients[u] # l.clients[t]

\* after a rebuild, one thread has sent a request with its client of the old
\* connection manager and the other with its client of the new one
C23_Witness ==
    /\ Len(connections.locals) >= 2
    /\ \E c \in Clients, d \in Clients :
           /\ connections.users[c] = {"t1"}
           /\ connections.users[d] = {"t2"}
           /\ connections.locals[1].clients["t1"] = c
           /\ connections.locals[Len(connections.locals)].clients["t2"] = d
           /\ connections.locals[Len(connections.locals)].builder = "t1"

\* C24: when save is left, by return or by an exception raised during the
\* compression or the upload, none of the temporary files it made (the file
\* of the bytes of a text content, the gzip file) is open.
C24_BuffersReleased ==
    ret.op = "save" => ret.temp_files = {}

\* C25: with saves arriving at any point of a running sync_meta, the
\* ContentType, the ContentEncoding and the uncompressed_size of every stored
\* object describe the body it has now, and open reads the content last
\* saved.
C25_HeadersMatchBody ==
    \A k \in DOMAIN bucket :
        /\ bucket[k].ContentType = ContentTypeOf(k)
        /\ bucket[k].ContentEncoding \in {<<>>, Gzip}
        /\ bucket[k].ContentEncoding = <<>> =>
               /\ bucket[k].Body = saved[k]
               /\ UNCOMPRESSED_SIZE_META_KEY \notin DOMAIN bucket[k].Metadata
        /\ bucket[k].ContentEncoding = Gzip =>
               /\ bucket[k].Body = GzipCompress(saved[k])
               /\ bucket[k].Metadata[UNCOMPRESSED_SIZE_META_KEY] = FormatInt(Len(saved[k]))
        /\ _open(bucket, settings, k, "rb").data = saved[k]

\* C27: with deletions arriving at any point of a running sync_meta, before
\* the headers of the entry are fetched or between the fetch and the copy,
\* the iteration never raises, and no step of it stores an object at a key
\* that held none.
C27_DeleteDuringSync ==
    /\ [](sync.pc # "raised")
    /\ [][(DOMAIN bucket' \ DOMAIN bucket) # {} => ret'.op = "save"]_vars

\* C26: without AWS_S3_FILE_OVERWRITE, two saves of the same name that two
\* threads have made return two distinct names, and the content of each is
\* stored under the name it returned: neither has replaced the object of the
\* other.
C26_ConcurrentSaves ==
    \A t \in Threads : \A u \in Threads \ {t} :
        (/\ ~settings.AWS_S3_FILE_OVERWRITE
         /\ pending[t].pc = "done"
         /\ pending[u].pc = "done"
         /\ pending[t].name = pending[u].name) =>
            /\ pending[t].final # pending[u].final
            /\ saved[_get_key_name(settings, pending[t].final)] = pending[t].content.data
            /\ saved[_get_key_name(settings, pending[u].final)] = pending[u].content.data

\* the key is the prefix P or lies under P followed by a slash
InNamespace(k, P) == k = P \/ StartsWith(k, P \o <<"/">>)

\* C28: with a key prefix P, sync_meta sends its copies only to keys that are
\* P or begin with P and a slash, and changes no other object of the bucket:
\* an object whose key only begins with the characters of P is not
\* rewritten.
C28_SyncStaysInNamespace ==
    /\ [](\A k \in sync.copied : InNamespace(k, settings.AWS_S3_KEY_PREFIX))
    /\ [][sync.pc = "copy" =>
            \A k \in DOMAIN bucket :
                bucket'[k] # bucket[k] => InNamespace(k, settings.AWS_S3_KEY_PREFIX)]_vars
====
